---- MODULE Spec2Model ----
(***************************************************************************)
(* State-machine model of the pyForTraCC track viewer.                     *)
(*                                                                         *)
(* The modular application (src/js/core.js, mapUtils.js, viewOptions.js,   *)
(* chartModule.js, script.js, with the state manager and player scripts)   *)
(* is the specification Spec.  The monolithic src/script.js holds two      *)
(* older copies of the same viewer; their handlers that differ from the    *)
(* modular ones are modelled by the operators prefixed Legacy / Old and    *)
(* run under SpecLegacy and SpecOld.                                       *)
(*                                                                         *)
(* All program state (core.state, the DOM controls the handlers read and   *)
(* write, localStorage, pending timers) is one record, app, so that a      *)
(* handler is a function from records to records and a sequence of calls   *)
(* in the source is a chain of LET bindings here.  Indices are 0-based as  *)
(* in the source; layer k of the source is geojsonLayers[k + 1] here.      *)
(***************************************************************************)
EXTENDS Integers, Sequences, FiniteSets, TLC

VARIABLES
  app,    \* the page: core.state, DOM controls, localStorage, timers
  files,  \* the boundary directory as the server lists it (sorted by name)
  ev      \* the event handled by the last step (observation only)

vars == <<app, files, ev>>

\* null / undefined of a string-valued slot
NULL == "null"
\* a property a feature does not have
UNDEFINED == "undefined"
\* the number NaN, kept apart from every index the program can compute
NaN == -999
\* extractTimestampFromFileName's null, kept apart from every minute count
NoStamp == -1

(* ------------------------------ bounds -------------------------------- *)
\* boundary files whose fetch may fail in one catalog load
MaxFailed == 1
\* playback ticks whose index the observation records
MaxTicks == 2
\* chart updates that may wait for Chart.js at the same time
MaxPending == 1
\* trajectory fetches in flight, and overlay layers on the map, at most
MaxFetches == 2
MaxOverlays == 2
\* page reloads in one behaviour; the user acts on the pages before the last
\* one, which only loads and restores
MaxLoads == 1

(* ------------------------- program constants -------------------------- *)
TIME_OFFSET == -3
TIME_INCREMENT == 10
DEFAULT_THRESHOLD == "235.0"
\* the display keys modelled (CONFIG.DISPLAY_KEYS holds six; two suffice to
\* tell "uid only", "another key only", "both" and "none" apart)
DISPLAY_KEYS == {"uid", "status"}
STYLE_BOUNDARY == "BOUNDARY"
STYLE_SELECTED == "SELECTED"
\* values of the thresholdFilter radio buttons; the first is checked in the markup
ThresholdRadios == {"2.5", "5"}
RadioCheckedInMarkup == "2.5"
\* default max of an <input type=range> that has no max attribute
RANGE_DEFAULT_MAX == 100

(* ------------------------------ numbers ------------------------------- *)
\* JavaScript comparisons: every comparison with NaN is false.
IsNum(x) == x # NaN
Lt(a, b) == IsNum(a) /\ IsNum(b) /\ a < b
Ge(a, b) == IsNum(a) /\ IsNum(b) /\ a >= b
\* a % b of two integers, JavaScript's sign convention; NaN for b = 0
JsMod(a, b) ==
  IF ~IsNum(a) \/ ~IsNum(b) \/ b = 0 THEN NaN
  ELSE IF a >= 0 THEN a % b ELSE -((-a) % b)
JsAdd(a, b) == IF IsNum(a) /\ IsNum(b) THEN a + b ELSE NaN

\* parseFloat on the threshold texts that occur: value in tenths, NaN otherwise
parseFloat(t) ==
  CASE t = "235.0" -> 2350
    [] t = "235"   -> 2350
    [] t = "2.5"   -> 25
    [] t = "2.50"  -> 25
    [] t = "5"     -> 50
    [] OTHER       -> NaN
\* === on two parseFloat results (NaN === NaN is false)
NumEq(a, b) == IsNum(a) /\ IsNum(b) /\ a = b

\* parseInt on the texts stored under currentLayerIndex
parseInt(t) ==
  CASE t = "0" -> 0 [] t = "1" -> 1 [] t = "2" -> 2 [] t = "3" -> 3
    [] t = "7" -> 7 [] OTHER -> NaN
\* Number.prototype.toString for the indices that occur
IndexToString(i) ==
  CASE i = 0 -> "0" [] i = 1 -> "1" [] i = 2 -> "2" [] i = 3 -> "3"
    [] i = 7 -> "7" [] OTHER -> "NaN"

(* ------------------------------- data --------------------------------- *)
\* A boundary file name is its rank in lower-cased lexicographic order and
\* the minute count its YYYYMMDD_HHMM pattern encodes (NoStamp: no pattern).
FileName(rank, stamp) == [rank |-> rank, stamp |-> stamp]
Feature(u, t, g, p) == [uid |-> u, threshold |-> t, geom |-> g, props |-> p]
TimeStep(fn, fs) == [fileName |-> fn, features |-> fs]

\* three steps, entity A in the first and third only; B changes geometry and
\* has one feature without a threshold property
CatalogABA ==
  << TimeStep(FileName(1, 600),
        << Feature("A", "2.5", "Polygon", {"uid", "status"}),
           Feature("B", "2.5", "Polygon", {"uid"}) >>),
     TimeStep(FileName(2, 610),
        << Feature("B", "2.50", "MultiPolygon", {"uid", "status"}),
           Feature("B", "235", "Polygon", {"uid"}),
           Feature("B", UNDEFINED, "Polygon", {"uid"}) >>),
     TimeStep(FileName(3, 620),
        << Feature("A", "235.0", "Polygon", {"uid"}),
           Feature("A", "2.5", "Polygon", {"uid", "status"}),
           Feature("B", "2.5", "Polygon", {"uid"}) >>) >>

\* two steps, listed out of name order, one file name without a timestamp
\* pattern
CatalogTwo ==
  << TimeStep(FileName(2, NoStamp),
        << Feature("A", "235.0", "Polygon", {"uid"}),
           Feature("B", "235", "Polygon", {"uid"}),
           Feature("A", "5", "Polygon", {"uid"}) >>),
     TimeStep(FileName(1, 600),
        << Feature("A", "235", "Polygon", {"uid"}),
           Feature("B", "5", "Polygon", {"uid", "status"}) >>) >>

Catalogs == {CatalogABA, CatalogTwo}

\* a feature of a loaded step is referred to by file rank and position
Ref(rank, k) == [file |-> rank, idx |-> k]

\* null of a feature / layer reference slot
NoRef == Ref(0, 0)

Range(q) == {q[i] : i \in DOMAIN q}

\* truthiness of a string slot (null, undefined and "" are falsy)
Truthy(x) == x # NULL /\ x # ""

(* ------------------------- reading core.state ------------------------- *)
Length(s) == Len(s.geojsonLayers)
\* geojsonLayers[currentIndex] is defined
HasCurrentLayer(s) == s.currentIndex \in 0 .. (Length(s) - 1)
CurrentLayer(s) == s.geojsonLayers[s.currentIndex + 1]
LayerOfFile(s, rank) ==
  CHOOSE l \in Range(s.geojsonLayers) : l.fileName.rank = rank
FeatureAt(s, ref) == LayerOfFile(s, ref.file).features[ref.idx]

\* core.utils.extractTimestampFromFileName: the encoded UTC minute shifted
\* by TIME_OFFSET hours and TIME_INCREMENT minutes; null without a pattern
extractTimestampFromFileName(fn) ==
  IF fn.stamp = NoStamp THEN NoStamp
  ELSE fn.stamp + TIME_OFFSET * 60 + TIME_INCREMENT

\* new Date(ts).getTime(): new Date(null) is the epoch
DateOf(ts) == IF ts = NoStamp THEN 0 ELSE ts

\* core.passesThreshold; the first operator is the variant that compares the
\* two texts instead of the numbers parsed from them
passesThresholdAsText(s, f) ==
  f.threshold # UNDEFINED /\ f.threshold = s.currentThresholdFilter
passesThreshold(s, f) ==
  IF f.threshold # UNDEFINED
  THEN NumEq(parseFloat(f.threshold), parseFloat(s.currentThresholdFilter))
  ELSE FALSE

(* ---------------------------- mapUtils -------------------------------- *)
NoBoundary == [present |-> FALSE, onMap |-> FALSE, file |-> 0,
               rendered |-> {}, highlighted |-> {}]

\* getFeatureStyle, as L.geoJSON and resetStyle evaluate it: it reads
\* selection.uid at the moment it is called
getFeatureStyle(s, f) ==
  IF Truthy(s.selection.uid) /\ f.uid = s.selection.uid
  THEN STYLE_SELECTED ELSE STYLE_BOUNDARY

\* The trajectory overlay: the checkbox (checked), whether
\* core.elements.showTrajectoryCheckbox refers to it (bound), the overlay
\* layers on the map, core.state.currentTrajectoryLayer (0: null), the files
\* whose layer object holds trajectoryGeojson, and the fetches in flight;
\* whether core.state.trajectoryFiles has arrived (listed) and the files
\* whose preload fetch is in flight.
NoTrajectory == [checked |-> FALSE, bound |-> FALSE, layers |-> {},
                 current |-> 0, cache |-> {}, fetches |-> {},
                 listed |-> FALSE, preloads |-> {}]
\* a new L.geoJSON overlay object / a new fetch
FreshOverlay(s) ==
  CHOOSE i \in 1 .. (Cardinality(s.traj.layers) + 1) :
    \A o \in s.traj.layers : o.id # i
FreshFetch(s) ==
  CHOOSE i \in 1 .. (Cardinality(s.traj.fetches) + 1) :
    \A o \in s.traj.fetches : o.id # i
\* mapUtils.removeTrajectoryLayer
removeTrajectoryLayer(s) ==
  IF s.traj.current = 0 THEN s
  ELSE [s EXCEPT !.traj.layers = {o \in @ : o.id # s.traj.current},
                 !.traj.current = 0]
\* createTrajectoryLayer(geojson).addTo(_map), assigned to
\* core.state.currentTrajectoryLayer
addTrajectoryLayer(s, rank) ==
  [s EXCEPT !.traj.layers = @ \cup {[id |-> FreshOverlay(s), file |-> rank]},
            !.traj.current = FreshOverlay(s)]
\* mapUtils.loadTrajectoryForCurrentLayer
loadTrajectoryForCurrentLayer(s) ==
  IF ~HasCurrentLayer(s) THEN s
  ELSE LET rank == CurrentLayer(s).fileName.rank
           s1 == removeTrajectoryLayer(s)
       IN IF rank \in s1.traj.cache THEN addTrajectoryLayer(s1, rank)
          ELSE [s1 EXCEPT !.traj.fetches =
                             @ \cup {[id |-> FreshFetch(s1), file |-> rank]}]
\* the fetch f of loadTrajectoryForCurrentLayer settles (ok: with the data)
trajectoryFetched(s, f, ok) ==
  LET s1 == [s EXCEPT !.traj.fetches = @ \ {f}]
  IN IF ok
     THEN addTrajectoryLayer([s1 EXCEPT !.traj.cache = @ \cup {f.file}], f.file)
     ELSE IF s1.traj.bound THEN [s1 EXCEPT !.traj.checked = FALSE] ELSE s1

\* mapUtils.loadTrajectoryFiles, once the trajectory listing has arrived:
\* preloadTrajectoryForLayer starts a fetch for every loaded layer that
\* holds no trajectoryGeojson
trajectoryFilesListed(s) ==
  [s EXCEPT !.traj.listed = TRUE,
            !.traj.preloads =
               {l.fileName.rank : l \in Range(s.geojsonLayers)} \ s.traj.cache]
\* the fetch of preloadTrajectoryForLayer for the layer of file rank settles
preloadFetched(s, rank, ok) ==
  [s EXCEPT !.traj.preloads = @ \ {rank},
            !.traj.cache = IF ok THEN @ \cup {rank} ELSE @]

\* mapUtils.updateBoundaryLayer: the layer on the map is removed, the
\* references of the selection to it are dropped, and the features of the
\* current step that pass the filter are rendered
updateBoundaryLayer(s) ==
  LET s1 == [s EXCEPT !.boundary.onMap = FALSE,
                      !.selection.feature = NoRef,
                      !.selection.layer = NoRef]
  IN IF ~HasCurrentLayer(s1) THEN s1
     ELSE LET l == CurrentLayer(s1)
              shown == {k \in DOMAIN l.features :
                          passesThreshold(s1, l.features[k])}
          IN removeTrajectoryLayer(
               [s1 EXCEPT !.boundary =
                  [present |-> TRUE, onMap |-> TRUE, file |-> l.fileName.rank,
                   rendered |-> shown,
                   highlighted |-> {k \in shown :
                      getFeatureStyle(s1, l.features[k]) = STYLE_SELECTED}]])

(* --------------------------- viewOptions ------------------------------ *)
\* core.utils.computeCentroid returns null unless the geometry is a Polygon
HasCentroid(f) == f.geom = "Polygon"
\* the keys whose line updateMarkers writes into the tooltip of f
InfoKeys(s, f) == {d \in DISPLAY_KEYS : s.displayOptions[d] /\ d \in f.props}

\* viewOptions.updateMarkers
updateMarkers(s) ==
  IF ~HasCurrentLayer(s) THEN [s EXCEPT !.markers = {}]
  ELSE LET l == CurrentLayer(s)
           keep(f) ==
             IF s.selection.feature # NoRef
             THEN f.uid = FeatureAt(s, s.selection.feature).uid
                    /\ passesThreshold(s, f)
             ELSE passesThreshold(s, f)
       IN [s EXCEPT !.markers =
             {[f |-> Ref(l.fileName.rank, k), keys |-> InfoKeys(s, l.features[k])] :
                k \in {j \in DOMAIN l.features :
                         /\ keep(l.features[j])
                         /\ HasCentroid(l.features[j])
                         /\ InfoKeys(s, l.features[j]) # {}}}]

(* --------------------------- chartModule ------------------------------ *)
Uids == {"A", "B"}
NoSeries == [cached |-> FALSE, series |-> << >>]

\* Array.prototype.sort by originalDate: stable insertion of x into sorted q
RECURSIVE InsertByDate(_, _)
InsertByDate(q, x) ==
  IF q = << >> THEN << x >>
  ELSE IF DateOf(x) < DateOf(Head(q)) THEN << x >> \o q
  ELSE << Head(q) >> \o InsertByDate(Tail(q), x)
RECURSIVE SortByDate(_)
SortByDate(q) ==
  IF q = << >> THEN << >>
  ELSE InsertByDate(SortByDate(SubSeq(q, 1, Len(q) - 1)), q[Len(q)])

\* Array.prototype.find by uid: the position of the first feature with the
\* uid, whatever its threshold (0 when the step holds none)
findByUid(features, uid) ==
  IF \A j \in DOMAIN features : features[j].uid # uid THEN 0
  ELSE CHOOSE j \in DOMAIN features :
         /\ features[j].uid = uid
         /\ \A i \in 1 .. (j - 1) : features[i].uid # uid

\* the data points collectTimeSeriesData gathers from layers k .. end: one per
\* layer that holds a feature with the uid (at any threshold) and whose file
\* name yields a timestamp, with the feature its values are read from
RECURSIVE DataPointRecords(_, _, _)
DataPointRecords(layers, uid, k) ==
  IF k > Len(layers) THEN << >>
  ELSE IF /\ findByUid(layers[k].features, uid) # 0
          /\ extractTimestampFromFileName(layers[k].fileName) # NoStamp
       THEN << [timestamp |-> extractTimestampFromFileName(layers[k].fileName),
                feature |-> Ref(layers[k].fileName.rank,
                                findByUid(layers[k].features, uid))] >>
            \o DataPointRecords(layers, uid, k + 1)
       ELSE DataPointRecords(layers, uid, k + 1)

\* dataPoints.map(p => p.timestamp)
DataPoints(layers, uid, k) ==
  [i \in DOMAIN DataPointRecords(layers, uid, k) |->
     DataPointRecords(layers, uid, k)[i].timestamp]

\* chartModule.collectTimeSeriesData: the timestamps returned
collectTimeSeriesData(s, uid) ==
  IF s.dataCache[uid].cached THEN s.dataCache[uid].series
  ELSE SortByDate(DataPoints(s.geojsonLayers, uid, 1))

\* the variant that stops at the first timestamp not before the current one
RECURSIVE UpToCurrentExclusive(_, _)
UpToCurrentExclusive(series, cur) ==
  IF series = << >> \/ DateOf(Head(series)) >= DateOf(cur) THEN 0
  ELSE 1 + UpToCurrentExclusive(Tail(series), cur)

\* number of leading timestamps that are not after the current one
\* (findIndex of the first later timestamp, the whole series when none is)
RECURSIVE UpToCurrent(_, _)
UpToCurrent(series, cur) ==
  IF series = << >> \/ DateOf(Head(series)) > DateOf(cur) THEN 0
  ELSE 1 + UpToCurrent(Tail(series), cur)

\* chartModule.hideChart
hideChart(s) == [s EXCEPT !.chart.display = FALSE]

\* chartModule.updateChart
updateChartWholeSeries(s, ref) ==
  LET uid == FeatureAt(s, ref).uid
      series == collectTimeSeriesData(s, uid)
  IN [s EXCEPT !.chart = [display |-> TRUE, uid |-> uid, points |-> series,
                     marked |-> Len(series)]]
updateChart(s, ref) ==
  LET uid == FeatureAt(s, ref).uid
      s0 == [s EXCEPT !.chart.uid = uid]
  IN IF ~s.chartLib
     THEN [s0 EXCEPT !.chartScript = TRUE, !.pendingChart = @ \cup {ref}]
     ELSE LET series == collectTimeSeriesData(s0, uid)
              s1 == [s0 EXCEPT !.dataCache[uid] =
                                  [cached |-> TRUE, series |-> series]]
          IN IF Len(series) = 0 THEN hideChart(s1)
             ELSE IF ~HasCurrentLayer(s1) THEN [s1 EXCEPT !.error = "TypeError"]
             ELSE LET cur == extractTimestampFromFileName(CurrentLayer(s1).fileName)
                  IN [s1 EXCEPT !.chart =
                        [display |-> TRUE, uid |-> uid,
                         points |-> SubSeq(series, 1, UpToCurrent(series, cur)),
                 marked |-> UpToCurrent(series, cur)]]

(* ---------------------- mapUtils: navigation -------------------------- *)
\* text of the timestamp-info element before any step was shown
LabelInitial == -2

\* value an <input type=range min=0 step=1> keeps when set to v
RangeSanitize(v, max) ==
  IF ~IsNum(v) THEN (IF max < 0 THEN 0 ELSE (max + 1) \div 2)
  ELSE IF v < 0 \/ max < 0 THEN 0
  ELSE IF v > max THEN max ELSE v

\* mapUtils.updateTimestampInfo(geojsonLayers[currentIndex])
updateTimestampInfo(s) ==
  IF ~HasCurrentLayer(s) THEN s
  ELSE [s EXCEPT !.trackInfo = extractTimestampFromFileName(CurrentLayer(s).fileName)]

\* the eachLayer loop of showLayerAtIndex from rendered feature k on: every
\* rendered feature with the uid that passes the threshold becomes the
\* selection, is given the selected style and is charted
RECURSIVE Reselect(_, _, _)
Reselect(s, uid, k) ==
  IF k > Len(CurrentLayer(s).features) THEN s
  ELSE LET f == CurrentLayer(s).features[k]
           r == Ref(CurrentLayer(s).fileName.rank, k)
       IN IF k \in s.boundary.rendered /\ f.uid = uid /\ passesThreshold(s, f)
          THEN Reselect(updateChart([s EXCEPT !.selection.feature = r,
                                               !.selection.layer = r,
                                               !.boundary.highlighted = @ \cup {k}],
                                    r), uid, k + 1)
          ELSE Reselect(s, uid, k + 1)

\* mapUtils.showLayerAtIndex
\* its parts, in the order they run: the selection is looked up again in the
\* new layer (currentSelectedUid), then the markers, the label, the
\* trajectory (showTrajectory) and the slider follow unless the lookup threw
hideChartUnlessFound(s) ==
  IF s.selection.feature # NoRef THEN s ELSE hideChart(s)
reselectInLayer(s, currentSelectedUid) ==
  IF ~Truthy(currentSelectedUid) THEN s
  ELSE IF ~s.boundary.present THEN [s EXCEPT !.error = "TypeError"]
  ELSE hideChartUnlessFound(Reselect(s, currentSelectedUid, 1))
trajectoryIfShown(s, showTrajectory) ==
  IF showTrajectory THEN loadTrajectoryForCurrentLayer(s) ELSE s
sliderFollows(s) ==
  [s EXCEPT !.slider.value = RangeSanitize(s.currentIndex, s.slider.max)]
layerShown(s, entry) ==
  IF s.error # entry.error THEN s
  ELSE sliderFollows(
         trajectoryIfShown(updateTimestampInfo(updateMarkers(s)),
                           entry.traj.bound /\ entry.traj.checked))
showLayerAtIndex(s, index) ==
  IF Lt(index, 0) \/ Ge(index, Length(s)) THEN s
  ELSE layerShown(
         reselectInLayer(
           updateBoundaryLayer(
             [s EXCEPT !.boundary = NoBoundary, !.markers = {},
                       !.currentIndex = index]),
           s.selection.uid),
         s)

(* ----------------------- mapUtils: selection -------------------------- *)
\* the click handler's hasActiveOptions and the step that follows it: with
\* no display option enabled the uid option (and its checkbox) is switched on;
\* the first operator is the variant without that step
hasActiveOptions(s) == \E d \in DISPLAY_KEYS : s.displayOptions[d]
optionsLeftAlone(s) == s
enableUidIfNoneActive(s) ==
  IF ~hasActiveOptions(s) THEN [s EXCEPT !.displayOptions["uid"] = TRUE] ELSE s
\* the click handler updateBoundaryLayer binds to rendered feature k
clickFeature(s, k) ==
  LET f == LayerOfFile(s, s.boundary.file).features[k]
      r == Ref(s.boundary.file, k)
  IN IF s.selection.uid = f.uid
     THEN updateMarkers(hideChart(
            [s EXCEPT !.selection = [uid |-> NULL, feature |-> NoRef, layer |-> NoRef],
                      !.boundary.highlighted = @ \ {k}]))
     ELSE LET s1 == [s EXCEPT
                       !.boundary.highlighted =
                          (IF Truthy(s.selection.uid) THEN {} ELSE @) \cup {k},
                       !.selection = [uid |-> f.uid, feature |-> r, layer |-> r]]
          IN updateMarkers(enableUidIfNoneActive(updateChart(s1, r)))

\* resetStyle on every rendered layer: the style function is evaluated again
\* with the selection uid of that moment
resetStyleAll(s) ==
  IF ~s.boundary.present THEN s
  ELSE [s EXCEPT !.boundary.highlighted =
          {k \in s.boundary.rendered :
             getFeatureStyle(s, LayerOfFile(s, s.boundary.file).features[k])
               = STYLE_SELECTED}]

\* mapUtils.clearSelection (click on the map background)
clearSelection(s) ==
  IF ~Truthy(s.selection.uid) THEN s
  ELSE updateMarkers(hideChart(
         [resetStyleAll(s) EXCEPT
            !.selection = [uid |-> NULL, feature |-> NoRef, layer |-> NoRef]]))

\* chartModule: click on the close button of the chart panel
closeChart(s) ==
  LET s1 == hideChart(s)
  IN IF ~Truthy(s1.selection.uid) THEN s1
     ELSE updateMarkers(
            [resetStyleAll(s1) EXCEPT
               !.selection = [uid |-> NULL, feature |-> NoRef, layer |-> NoRef]])

\* core.selectPolygonByUid; the first operator is the variant that records
\* the feature found without recording its uid
selectPolygonByUidFeatureOnly(s, uid) ==
  LET hits == IF ~s.boundary.present THEN {}
              ELSE {k \in s.boundary.rendered :
                     LET f == LayerOfFile(s, s.boundary.file).features[k]
                     IN f.uid = uid /\ passesThreshold(s, f)}
  IN IF hits # {}
     THEN LET r == Ref(s.boundary.file, CHOOSE m \in hits : \A j \in hits : j <= m)
          IN [s EXCEPT !.selection.feature = r, !.selection.layer = r,
                       !.boundary.highlighted = @ \cup hits]
     ELSE [s EXCEPT !.selection.feature = NoRef, !.selection.layer = NoRef]
selectPolygonByUid(s, uid) ==
  LET hits == IF ~s.boundary.present THEN {}
              ELSE {k \in s.boundary.rendered :
                     LET f == LayerOfFile(s, s.boundary.file).features[k]
                     IN f.uid = uid /\ passesThreshold(s, f)}
  IN IF hits # {}
     THEN LET k == CHOOSE m \in hits : \A j \in hits : j <= m
              r == Ref(s.boundary.file, k)
          IN [s EXCEPT !.selection = [uid |-> uid, feature |-> r, layer |-> r],
                       !.boundary.highlighted = @ \cup hits]
     ELSE [s EXCEPT !.selection.feature = NoRef, !.selection.layer = NoRef]

(* --------------------------- viewOptions ------------------------------ *)
\* viewOptions.updateThresholdFilter, after the user checked radio v; the
\* first operator is the variant that stores the filter without rendering
updateThresholdFilterNoRender(s, v) ==
  updateMarkers([s EXCEPT !.radio = v, !.currentThresholdFilter = v])
updateThresholdFilter(s, v) ==
  LET s1 == updateMarkers(updateBoundaryLayer(
              [s EXCEPT !.radio = v, !.currentThresholdFilter = v]))
  IN IF s1.traj.checked THEN loadTrajectoryForCurrentLayer(s1) ELSE s1

\* viewOptions.updateTrajectoryDisplay: it reads the checkbox
updateTrajectoryDisplay(s) ==
  LET s1 == [s EXCEPT !.traj.bound = TRUE]
      s2 == IF s1.traj.checked THEN loadTrajectoryForCurrentLayer(s1)
            ELSE removeTrajectoryLayer(s1)
  IN [s2 EXCEPT !.ls.showTrajectory =
                   IF s1.traj.checked THEN "true" ELSE "false"]

\* viewOptions.updateDisplayOptions, after the user toggled checkbox d
updateDisplayOptions(s, d) ==
  updateMarkers([s EXCEPT !.displayOptions[d] = ~@])

(* ----------------------------- playback ------------------------------- *)
\* handle returned by setInterval: one no live timer and no stored handle has
FreshTimer(s) ==
  CHOOSE i \in 1 .. (Cardinality(s.timers) + 2) :
    i \notin s.timers /\ i # s.playInterval

\* script.js updatePlayInterval
updatePlayInterval(s) ==
  LET s1 == IF s.playInterval # 0
            THEN [s EXCEPT !.timers = @ \ {s.playInterval}] ELSE s
  IN IF ~s1.playing THEN s1
     ELSE [s1 EXCEPT !.playInterval = FreshTimer(s1),
                     !.timers = @ \cup {FreshTimer(s1)}]

\* script.js togglePlayPause
togglePlayPause(s) ==
  IF Length(s) = 0 THEN s
  ELSE LET s1 == [s EXCEPT !.playing = ~@]
       IN IF s1.playing THEN updatePlayInterval(s1)
          ELSE [s1 EXCEPT !.timers = @ \ {s1.playInterval}]

\* the callback updatePlayInterval hands to setInterval; the first operator
\* is the variant without the wrap to 0
nextFrameNoWrap(s) == JsAdd(s.currentIndex, 1)
nextFrame(s) ==
  LET next == JsAdd(s.currentIndex, 1)
  IN IF Ge(next, Length(s)) THEN 0 ELSE next
\* the setInterval callback of updatePlayInterval: the next frame is shown
\* and, with the trajectory checkbox of the page checked, its trajectory is
\* requested once more
playTick(s) ==
  trajectoryIfShown(showLayerAtIndex(s, nextFrame(s)), s.traj.checked)

\* click handlers of the previous / next buttons (and the arrow keys); the
\* first operator is the previous index without the modulo
prevIndexNoWrap(s) == JsAdd(s.currentIndex, -1)
prevIndex(s) == JsMod(JsAdd(JsAdd(s.currentIndex, -1), Length(s)), Length(s))
nextIndex(s) == JsMod(JsAdd(s.currentIndex, 1), Length(s))

(* -------------------------- state manager ----------------------------- *)
NoOptions == [kind |-> "absent", uid |-> FALSE, status |-> FALSE]

\* the text stored under 'autoReloadInProgress': absent, the decimal text of
\* a time in minutes (modelled by that time), or a text parseInt cannot read
NoFlag == -1
GarbledFlag == -2
\* AUTO_RELOAD_TIMEOUT, in minutes
AUTO_RELOAD_TIMEOUT == 5
\* parseInt of the stored flag
parseFlag(x) == IF x = GarbledFlag THEN NaN ELSE x

\* the map's center and zoom: the view of the map options, and one the user
\* can move the map to
DefaultView == "default"
MovedView == "moved"
Views == {DefaultView, MovedView}
\* a text under 'mapViewState' that JSON.parse cannot read, and one under
\* 'boundaryFiles' (the stored listing is held as the set of its file names)
GarbledView == "garbled"
GarbledListing == {-1}

\* stateManager.clearUIState; the first operator is the variant that leaves
\* the stored uid in place
clearUIStateKeepsUid(ls) ==
  [ls EXCEPT !.displayOptions = NoOptions,
             !.showTrajectory = NULL, !.autoReload = NoFlag]
clearUIState(ls) ==
  [ls EXCEPT !.selectedSystemUid = NULL, !.displayOptions = NoOptions,
             !.showTrajectory = NULL, !.autoReload = NoFlag]
\* stateManager.clearAllState
clearAllState(ls) ==
  [ls EXCEPT !.selectedSystemUid = NULL, !.displayOptions = NoOptions,
             !.thresholdFilter = NULL, !.currentLayerIndex = NULL,
             !.showTrajectory = NULL, !.mapViewState = NULL,
             !.autoReload = NoFlag, !.manualReset = FALSE]
\* stateManager.checkIfAutoReload at time now; the first operator is the
\* variant that also accepts a flag exactly AUTO_RELOAD_TIMEOUT old
checkIfAutoReloadInclusive(ls, now) ==
  IF ls.autoReload = NoFlag THEN FALSE
  ELSE IF ~IsNum(parseFlag(ls.autoReload)) THEN FALSE
  ELSE now - parseFlag(ls.autoReload) <= AUTO_RELOAD_TIMEOUT
checkIfAutoReload(ls, now) ==
  IF ls.autoReload = NoFlag THEN FALSE
  ELSE IF ~IsNum(parseFlag(ls.autoReload)) THEN FALSE
  ELSE now - parseFlag(ls.autoReload) < AUTO_RELOAD_TIMEOUT
\* stateManager.loadState: the value returned and the storage left behind
loadStateResult(ls, now) == checkIfAutoReload(ls, now)
loadState(ls, now) ==
  LET ls1 == IF checkIfAutoReload(ls, now) THEN ls
             ELSE IF ls.manualReset THEN clearAllState(ls)
             ELSE clearUIState(ls)
  IN [ls1 EXCEPT !.autoReload = NoFlag, !.manualReset = FALSE]

\* JSON.stringify(core.state.displayOptions)
OptionsText(d) == [kind |-> "ok", uid |-> d["uid"], status |-> d["status"]]

\* stateManager.saveState(isAutoReload): core.elements has no map, so the
\* map view is not written here
saveState(s, isAutoReload) ==
  IF s.ls.manualReset /\ ~isAutoReload
  THEN [s EXCEPT !.ls = clearAllState(s.ls)]
  ELSE
    [s EXCEPT
       !.ls.autoReload = IF isAutoReload THEN s.now ELSE @,
       !.ls.selectedSystemUid = IF Truthy(s.selection.uid)
                                THEN s.selection.uid ELSE NULL,
       !.ls.displayOptions = OptionsText(s.displayOptions),
       !.ls.thresholdFilter = IF Truthy(s.currentThresholdFilter)
                              THEN s.currentThresholdFilter ELSE @,
       !.ls.currentLayerIndex = IndexToString(s.currentIndex),
       !.ls.showTrajectory = IF s.traj.bound
                             THEN (IF s.traj.checked THEN "true" ELSE "false")
                             ELSE @]
\* stateManager.handleAutoReload
handleAutoReload(s) == saveState(s, TRUE)
\* stateManager.requestManualReset
requestManualReset(s) == [s EXCEPT !.ls.manualReset = TRUE]

\* core.saveMapViewState and core.restoreMapViewState
saveMapViewState(s) == [s EXCEPT !.ls.mapViewState = s.mapView]
restoreMapViewState(s) ==
  IF Truthy(s.ls.mapViewState) /\ s.ls.mapViewState # GarbledView
  THEN [s EXCEPT !.mapView = s.ls.mapViewState]
  ELSE s
\* the beforeunload listeners, in the order they were registered
beforeUnload(s) == saveMapViewState(saveState(s, FALSE))

\* script.js restoreUIState
restoreDisplayOptions(s) ==
  IF s.ls.displayOptions.kind = "ok"
  THEN [s EXCEPT !.displayOptions =
          [d \in DISPLAY_KEYS |->
             IF d = "uid" THEN s.ls.displayOptions.uid
             ELSE s.ls.displayOptions.status]]
  ELSE s
restoreThreshold(s) ==
  IF Truthy(s.ls.thresholdFilter)
  THEN updateBoundaryLayer(
         [s EXCEPT !.currentThresholdFilter = s.ls.thresholdFilter,
                   !.radio = IF s.ls.thresholdFilter \in ThresholdRadios
                             THEN s.ls.thresholdFilter ELSE @])
  ELSE s
restoreTrajectory(s) ==
  IF Truthy(s.ls.showTrajectory) /\ s.traj.bound
  THEN updateTrajectoryDisplay(
         [s EXCEPT !.traj.checked = (s.ls.showTrajectory = "true")])
  ELSE s
restoreLayerIndex(s) ==
  IF /\ Truthy(s.ls.currentLayerIndex)
     /\ IsNum(parseInt(s.ls.currentLayerIndex))
     /\ parseInt(s.ls.currentLayerIndex) >= 0
     /\ parseInt(s.ls.currentLayerIndex) < Length(s)
  THEN showLayerAtIndex(s, parseInt(s.ls.currentLayerIndex)) ELSE s
restoreUIState(s) ==
  IF s.ls.displayOptions.kind = "bad" THEN s
  ELSE updateMarkers(
         restoreLayerIndex(
           restoreTrajectory(restoreThreshold(restoreDisplayOptions(s)))))

(* ------------------------ mapUtils.initialize ------------------------- *)
MAX_ATTEMPTS == 10
\* a call of mapUtils.initialize: initializeAttempts, whether a call of
\* waitForMap is due (the first one, or one set by setTimeout), whether the
\* 10 s timeout is armed, and the state of the promise returned
NoMapInit ==
  [attempts |-> 0, due |-> FALSE, timeout |-> FALSE, promise |-> "none"]
MapInitStarted ==
  [attempts |-> 0, due |-> TRUE, timeout |-> TRUE, promise |-> "pending"]
\* resolve / reject of the promise: a settled promise keeps its state
settle(m, outcome) ==
  [m EXCEPT !.promise = IF @ = "pending" THEN outcome ELSE @,
            !.timeout = FALSE, !.due = FALSE]
\* waitForMap; ready: core.elements.map is there and has its methods
waitForMap(m, ready) ==
  IF ready THEN settle([m EXCEPT !.attempts = @ + 1], "resolved")
  ELSE IF m.attempts + 1 >= MAX_ATTEMPTS
       THEN settle([m EXCEPT !.attempts = @ + 1], "rejected")
       ELSE [m EXCEPT !.attempts = @ + 1]
\* the 10 s timeout of initialize
initializeTimedOut(m) ==
  [m EXCEPT !.promise = IF @ = "pending" THEN "rejected" ELSE @,
            !.timeout = FALSE]

(* ---------------------------- page start ------------------------------ *)
\* core.state, the markup and the timers as initializeApp leaves them just
\* before it calls loadBoundaryLayers, for a page that starts at time now and
\* finds storage ls.  Three fields keep history: found is the storage entries
\* stateManager.initialize and the timers read, cause is what started the page
\* and snap is what the view held when the page before this one was left
Snapshot(s, taken) ==
  [taken |-> taken, index |-> s.currentIndex,
   threshold |-> s.currentThresholdFilter, uid |-> s.selection.uid,
   options |-> s.displayOptions, trajectory |-> s.traj.checked,
   view |-> s.mapView, reset |-> s.ls.manualReset, at |-> s.now]
NoSnapshot ==
  [taken |-> FALSE, index |-> 0, threshold |-> NULL, uid |-> NULL,
   options |-> [d \in DISPLAY_KEYS |-> FALSE], trajectory |-> FALSE,
   view |-> DefaultView, reset |-> FALSE, at |-> 0]
PageLoaded(ls, lib, now) ==
  [ geojsonLayers |-> << >>, currentIndex |-> 0,
    playing |-> FALSE, playInterval |-> 0, timers |-> {},
    currentThresholdFilter |-> DEFAULT_THRESHOLD, radio |-> RadioCheckedInMarkup,
    boundary |-> NoBoundary,
    selection |-> [uid |-> NULL, feature |-> NoRef, layer |-> NoRef],
    displayOptions |-> [d \in DISPLAY_KEYS |-> FALSE],
    markers |-> {}, traj |-> NoTrajectory,
    chart |-> [display |-> FALSE, uid |-> NULL, points |-> << >>,
              marked |-> 0],
    chartLib |-> lib, chartScript |-> FALSE, pendingChart |-> {},
    dataCache |-> [u \in Uids |-> NoSeries],
    error |-> "none", trackInfo |-> LabelInitial,
    slider |-> [disabled |-> TRUE, max |-> RANGE_DEFAULT_MAX, value |-> 0],
    load |-> "listing", fetching |-> {}, failed |-> {},
    mapInit |-> NoMapInit,
    shouldRestoreState |-> loadStateResult(ls, now),
    t500 |-> NULL, t1000 |-> FALSE, ls |-> loadState(ls, now),
    mapView |-> DefaultView, now |-> now, loads |-> 0, checking |-> FALSE,
    found |-> [autoReload |-> ls.autoReload, manualReset |-> ls.manualReset,
               mapViewState |-> ls.mapViewState],
    cause |-> "visit", snap |-> NoSnapshot ]

\* location.reload(): the beforeunload listeners run, then the page starts
\* again delay minutes later with the storage they left (the delay matters
\* only while an automatic-reload flag is stored)
reloadPage(s, delay, cause, taken) ==
  [PageLoaded(beforeUnload(s).ls, s.chartLib, s.now + delay) EXCEPT
     !.loads = s.loads + 1, !.cause = cause, !.snap = Snapshot(s, taken)]



(* ------------------------- loading the catalog ------------------------ *)
\* Array.prototype.sort by lower-cased file name; the first operator is the
\* variant that leaves the layers in the order of the listing
ListingOrder(q) == q
RECURSIVE InsertByName(_, _)
InsertByName(q, x) ==
  IF q = << >> THEN << x >>
  ELSE IF x.fileName.rank < Head(q).fileName.rank THEN << x >> \o q
  ELSE << Head(q) >> \o InsertByName(Tail(q), x)
RECURSIVE SortByName(_)
SortByName(q) ==
  IF q = << >> THEN << >>
  ELSE InsertByName(SortByName(SubSeq(q, 1, Len(q) - 1)), q[Len(q)])

\* results.filter(result => result !== null)
RECURSIVE ValidLayers(_, _)
ValidLayers(listing, failed) ==
  IF listing = << >> THEN << >>
  ELSE IF Head(listing).fileName.rank \in failed
       THEN ValidLayers(Tail(listing), failed)
       ELSE << Head(listing) >> \o ValidLayers(Tail(listing), failed)

Names(listing) == {l.fileName.rank : l \in Range(listing)}
\* the files of a listing that was taken earlier, as the directory serves them
RECURSIVE FilesListed(_, _)
FilesListed(listing, names) ==
  IF listing = << >> THEN << >>
  ELSE IF Head(listing).fileName.rank \in names
       THEN << Head(listing) >> \o FilesListed(Tail(listing), names)
       ELSE FilesListed(Tail(listing), names)

\* localStorage.setItem('boundaryFiles', JSON.stringify(files)) ahead of a
\* forced reload; the first operator is the variant that leaves the stored
\* listing as it is
listingNotStored(s, listing) == s
storeListing(s, listing) == [s EXCEPT !.ls.boundaryFiles = Names(listing)]

\* initializeApp's continuation of loadBoundaryLayers: restoreUIState when
\* stateManager.initialize found an automatic reload
restoreIfAutoReload(s) ==
  IF s.shouldRestoreState THEN restoreUIState(s) ELSE s

\* mapUtils.loadBoundaryLayers, once the directory listing has arrived
listingArrived(s, listing) ==
  IF Len(listing) = 0 THEN [s EXCEPT !.load = "failed"]
  ELSE IF s.ls.boundaryFiles = GarbledListing
       THEN \* JSON.parse throws: loadBoundaryLayers rejects and initializeApp
            \* appends the error message
            [s EXCEPT !.load = "failed", !.error = "SyntaxError"]
  ELSE IF Names(listing) \ s.ls.boundaryFiles # {}
       THEN \* the promise resolves, so initializeApp's continuation still
            \* runs on the page that is being left
            reloadPage(
              restoreIfAutoReload(storeListing(s, listing)),
              0, "listing", FALSE)
       ELSE [s EXCEPT !.load = "fetching", !.fetching = Names(listing)]

\* mapUtils.loadBoundaryLayers, once every file fetch has settled, followed
\* by the continuation initializeApp chains to it
layersLoaded(s, valid) ==
  [showLayerAtIndex(
     [s EXCEPT !.geojsonLayers = SortByName(valid),
               !.fetching = {},
               !.slider = [disabled |-> FALSE, max |-> Len(valid) - 1,
                           value |-> Len(valid) - 1]],
     Len(valid) - 1)
   EXCEPT !.playing = FALSE]
timersStarted(s) ==
  [s EXCEPT !.t500 = IF Truthy(s.ls.selectedSystemUid)
                     THEN s.ls.selectedSystemUid ELSE NULL,
            !.t1000 = TRUE, !.load = "ready"]
checkingStarted(s) == [s EXCEPT !.checking = TRUE]
loadComplete(s, listing, failed) ==
  IF Len(ValidLayers(listing, failed)) = 0
  THEN [s EXCEPT !.load = "failed", !.fetching = {}]
  ELSE checkingStarted(
         restoreIfAutoReload(
           timersStarted(layersLoaded(s, ValidLayers(listing, failed)))))

\* one entry of filePromises settles: a fetch that fails resolves to null;
\* Promise.all resolves in the same turn as the last entry
promiseSettled(s, rank, ok) ==
  [s EXCEPT !.fetching = @ \ {rank},
            !.failed = IF ok THEN @ ELSE @ \cup {rank}]
allSettled(s, listing) ==
  IF s.fetching # {} THEN s ELSE loadComplete(s, listing, s.failed)
fetchSettled(s, listing, rank, ok) ==
  allSettled(promiseSettled(s, rank, ok), listing)

\* mapUtils.checkForNewBoundaryFiles, once the directory listing has arrived
checkForNewBoundaryFiles(s, listing, delay) ==
  IF Names(listing) \ s.ls.boundaryFiles # {}
  THEN reloadPage(storeListing(handleAutoReload(s), listing),
                  delay, "check", TRUE)
  ELSE s

\* the 500 ms timer of loadBoundaryLayers
timer500(s) ==
  [selectPolygonByUid(s, s.t500) EXCEPT !.ls.selectedSystemUid = NULL,
                                         !.t500 = NULL]
\* the 1000 ms timer of loadBoundaryLayers
trajectoryIfChecked(s) ==
  trajectoryIfShown(s, s.traj.bound /\ s.traj.checked)
timer1000(s) ==
  [trajectoryIfChecked(
     updateMarkers(updateBoundaryLayer(restoreMapViewState(s))))
   EXCEPT !.t1000 = FALSE]

(* ------------------------------ storage ------------------------------- *)
Storage(auto, uid, opts, th, ix, listing) ==
  [autoReload |-> auto, manualReset |-> FALSE, selectedSystemUid |-> uid,
   displayOptions |-> opts, thresholdFilter |-> th, currentLayerIndex |-> ix,
   showTrajectory |-> NULL, mapViewState |-> NULL, boundaryFiles |-> listing]

\* localStorage as a page load can find it, for a directory listing that
\* was stored by an earlier visit: after a manual reload, and after two
\* automatic reloads (saveState(true) then location.reload())
InitialStorages(listing) ==
  { Storage(NoFlag, NULL, NoOptions, "235.0", "1", listing),
    Storage(0, "A", [kind |-> "ok", uid |-> TRUE, status |-> FALSE],
            "2.5", "0", listing),
    Storage(0, "B", [kind |-> "ok", uid |-> FALSE, status |-> TRUE],
            "5", "7", listing) }

(* ---------------------------- observation ---------------------------- *)
\* The observation: the handler that ran last and its input, and, while
\* playback runs undisturbed, the index playback started at and the indices
\* its first MaxTicks ticks showed; for a click on a feature, whether no
\* display option was enabled when it came.
NoStart == -1
Event(op, arg) ==
  [op |-> op, arg |-> arg, start |-> NoStart, shown |-> << >>, bare |-> FALSE]
Observe(op, arg, before, after) ==
  CASE op = "tick" ->
         [op |-> op, arg |-> arg, start |-> ev.start,
          shown |-> IF ev.start # NoStart /\ Len(ev.shown) < MaxTicks
                    THEN Append(ev.shown, after.currentIndex) ELSE ev.shown,
          bare |-> FALSE]
    [] op = "speed" -> [ev EXCEPT !.op = op, !.arg = arg]
    [] op \in {"playpause", "space"} /\ ~before.playing /\ after.playing ->
         [op |-> op, arg |-> arg, start |-> after.currentIndex, shown |-> << >>,
          bare |-> FALSE]
    [] op = "click" ->
         [Event(op, arg) EXCEPT !.bare = ~hasActiveOptions(before)]
    [] OTHER -> Event(op, arg)

Init ==
  /\ files \in Catalogs
  /\ \E ls \in InitialStorages(Names(files)) : app = PageLoaded(ls, TRUE, 0)
  /\ ev = Event("init", 0)

(* ------------------------------ actions ------------------------------- *)
Step(op, arg, s) ==
  /\ app' = s
  /\ Cardinality(app'.pendingChart) <= MaxPending
  /\ Cardinality(app'.traj.fetches) <= MaxFetches
  /\ Cardinality(app'.traj.layers) <= MaxOverlays
  /\ app'.loads <= MaxLoads
  /\ ev' = Observe(op, arg, app, app')
  /\ UNCHANGED files

\* the time, in minutes, a reloading page takes to start again
ReloadDelays == {0, AUTO_RELOAD_TIMEOUT - 1, AUTO_RELOAD_TIMEOUT}

ListingArrives ==
  /\ app.load = "listing"
  /\ Step("listing", 0, listingArrived(app, files))

\* a fetch of a file that left the directory after the listing fails
FilesSettled ==
  /\ app.load = "fetching"
  /\ \E failed \in SUBSET app.fetching :
        /\ Cardinality(failed) <= MaxFailed
        /\ app.fetching \ Names(files) \subseteq failed
        /\ Step("loaded", Cardinality(failed),
                loadComplete(app, FilesListed(files, app.fetching), failed))

Timer500 ==
  /\ app.t500 # NULL
  /\ Step("timer500", 0, timer500(app))

Timer1000 ==
  /\ app.t1000 /\ app.t500 = NULL
  /\ Step("timer1000", 0, timer1000(app))

\* the script element appended by loadChartJsIfNeeded finishes loading
ChartJsLoads ==
  /\ app.chartScript /\ ~app.chartLib
  /\ Step("chartjs", 0, [app EXCEPT !.chartLib = TRUE])

\* the 500 ms retry updateChart schedules while Chart is undefined
ChartRetry ==
  \E r \in app.pendingChart :
    Step("retry", r.idx, updateChart([app EXCEPT !.pendingChart = @ \ {r}], r))

ClickFeature ==
  /\ app.boundary.present /\ app.boundary.onMap
  /\ \E k \in app.boundary.rendered : Step("click", k, clickFeature(app, k))

ClickMap == Step("mapclick", 0, clearSelection(app))

CloseChart ==
  /\ app.chart.display
  /\ Step("close", 0, closeChart(app))

ChangeThreshold ==
  \E v \in ThresholdRadios \ {app.radio} :
    Step("threshold", parseFloat(v), updateThresholdFilter(app, v))

ToggleOption ==
  \E d \in DISPLAY_KEYS :
    Step("option", IF d = "uid" THEN 0 ELSE 1, updateDisplayOptions(app, d))

SliderInput ==
  /\ ~app.slider.disabled
  /\ \E v \in 0 .. app.slider.max :
        /\ v # app.slider.value
        /\ Step("slider", v,
                showLayerAtIndex([app EXCEPT !.slider.value = v],
                                 parseInt(IndexToString(v))))

ClickPrev == Step("prev", 0, showLayerAtIndex(app, prevIndex(app)))
ClickNext == Step("next", 0, showLayerAtIndex(app, nextIndex(app)))

KeyArrowLeft ==
  /\ Length(app) # 0
  /\ Step("left", 0, showLayerAtIndex(app, prevIndex(app)))
KeyArrowRight ==
  /\ Length(app) # 0
  /\ Step("right", 0, showLayerAtIndex(app, nextIndex(app)))

\* loading, selection, view options and manual navigation
Next ==
  \/ ListingArrives \/ FilesSettled \/ Timer500 \/ Timer1000
  \/ ClickFeature \/ ClickMap \/ CloseChart
  \/ ChangeThreshold \/ ToggleOption
  \/ SliderInput \/ ClickPrev \/ ClickNext
  \/ KeyArrowLeft \/ KeyArrowRight

Spec == Init /\ [][Next]_vars

(* ---------------- playback of the modular application ----------------- *)
ClickPlayPause == Step("playpause", 0, togglePlayPause(app))
SpeedInput == Step("speed", 0, updatePlayInterval(app))
KeySpace ==
  /\ Length(app) # 0
  /\ Step("space", 0, togglePlayPause(app))
Tick ==
  \E id \in app.timers : Step("tick", id, playTick(app))

\* loading, manual navigation and playback
NextPlayback ==
  \/ ListingArrives \/ FilesSettled \/ Timer500 \/ Timer1000
  \/ SliderInput \/ ClickPrev \/ ClickNext
  \/ KeyArrowLeft \/ KeyArrowRight \/ KeySpace
  \/ ClickPlayPause \/ SpeedInput \/ Tick

SpecPlayback == Init /\ [][NextPlayback]_vars

(***************************************************************************)
(* src/script.js, second copy (lines 1151-2619): the catalog is filled as  *)
(* each fetch settles, and playback has no guard on state.playing.         *)
(* updateBoundaryLayer (2016-2094) and updateMarkers (2099-2135) of this   *)
(* copy act as the modular ones above, which stand for them.               *)
(***************************************************************************)
\* updatePolygonChart of the second copy
LegacyUpdatePolygonChart(s, ref) ==
  LET uid == FeatureAt(s, ref).uid
      series == collectTimeSeriesData(s, uid)
      s1 == [s EXCEPT !.chart.uid = uid,
                      !.dataCache[uid] = [cached |-> TRUE, series |-> series]]
  IN IF ~s1.chartLib THEN s1
     ELSE IF ~HasCurrentLayer(s1) THEN [s1 EXCEPT !.error = "TypeError"]
     ELSE LET cur == extractTimestampFromFileName(CurrentLayer(s1).fileName)
          IN [s1 EXCEPT !.chart =
                [display |-> TRUE, uid |-> uid,
                 points |-> SubSeq(series, 1, UpToCurrent(series, cur)),
                 marked |-> UpToCurrent(series, cur)]]

RECURSIVE LegacyReselect(_, _, _)
LegacyReselect(s, uid, k) ==
  IF k > Len(CurrentLayer(s).features) THEN s
  ELSE LET f == CurrentLayer(s).features[k]
           r == Ref(CurrentLayer(s).fileName.rank, k)
       IN IF k \in s.boundary.rendered /\ f.uid = uid /\ passesThreshold(s, f)
          THEN LegacyReselect(
                 LegacyUpdatePolygonChart(
                   [s EXCEPT !.selection.feature = r, !.selection.layer = r,
                             !.boundary.highlighted = @ \cup {k}], r),
                 uid, k + 1)
          ELSE LegacyReselect(s, uid, k + 1)

\* showLayerAtIndex of the second copy
LegacyShowLayerAtIndex(s, index) ==
  IF Lt(index, 0) \/ Ge(index, Length(s)) THEN s
  ELSE
    LET currentSelectedUid == s.selection.uid
        s1 == updateBoundaryLayer(
                [s EXCEPT !.boundary = NoBoundary, !.markers = {},
                          !.currentIndex = index])
        s2 == IF ~Truthy(currentSelectedUid) THEN s1
              ELSE IF ~s1.boundary.present
                   THEN [s1 EXCEPT !.error = "TypeError"]
              ELSE LET s3 == LegacyReselect(s1, currentSelectedUid, 1)
                   IN IF s3.selection.feature # NoRef THEN s3
                      ELSE hideChart(s3)
    IN IF s2.error # s.error THEN s2
       ELSE [updateTimestampInfo(updateMarkers(s2)) EXCEPT
               !.slider.value = RangeSanitize(index, s2.slider.max)]

\* loadBoundaryLayers of the second copy: the fetch of one file settles
LegacyFetchSettled(s, layer, ok) ==
  LET s1 == [s EXCEPT !.fetching = @ \ {layer.fileName.rank},
                      !.geojsonLayers = IF ok THEN Append(@, layer) ELSE @]
  IN IF s1.fetching # {} \/ Length(s1) = 0
     THEN (IF s1.fetching = {} THEN [s1 EXCEPT !.load = "failed"] ELSE s1)
     ELSE
       LET n == Length(s1)
           s2 == [s1 EXCEPT !.geojsonLayers = SortByName(@),
                            !.slider = [disabled |-> FALSE, max |-> n - 1,
                                        value |-> n - 1]]
           s3 == [LegacyShowLayerAtIndex(s2, n - 1) EXCEPT !.playing = FALSE]
       IN [s3 EXCEPT !.t500 = IF Truthy(s3.ls.selectedSystemUid)
                               THEN s3.ls.selectedSystemUid ELSE NULL,
                     !.t1000 = TRUE, !.load = "ready"]

\* updatePlayInterval of the second copy
LegacyUpdatePlayInterval(s) ==
  LET s1 == IF s.playInterval # 0
            THEN [s EXCEPT !.timers = @ \ {s.playInterval}] ELSE s
  IN [s1 EXCEPT !.playInterval = FreshTimer(s1),
                !.timers = @ \cup {FreshTimer(s1)}]

\* click handler of the play / pause button, second copy
LegacyPlayPause(s) ==
  IF Length(s) = 0 THEN s
  ELSE LET s1 == [s EXCEPT !.playing = ~@]
       IN IF s1.playing THEN LegacyUpdatePlayInterval(s1)
          ELSE [s1 EXCEPT !.timers = @ \ {s1.playInterval}]

\* input handler of the speed control, second copy
LegacySpeedInput(s) == IF s.playing THEN LegacyUpdatePlayInterval(s) ELSE s

\* the callback LegacyUpdatePlayInterval hands to setInterval
LegacyPlayTick(s) == LegacyShowLayerAtIndex(s, nextFrame(s))

LegacyFetchSettles ==
  /\ app.load = "fetching"
  /\ \E l \in Range(files), ok \in BOOLEAN :
        /\ l.fileName.rank \in app.fetching
        /\ ok \/ Cardinality(Names(files) \ app.fetching)
                   - Length(app) < MaxFailed
        /\ Step("fetched", l.fileName.rank, LegacyFetchSettled(app, l, ok))
LegacyClickPlayPause == Step("playpause", 0, LegacyPlayPause(app))
LegacySpeed == Step("speed", 0, LegacySpeedInput(app))
LegacyTick == \E id \in app.timers : Step("tick", id, LegacyPlayTick(app))
LegacyClickPrev == Step("prev", 0, LegacyShowLayerAtIndex(app, prevIndex(app)))
LegacyClickNext == Step("next", 0, LegacyShowLayerAtIndex(app, nextIndex(app)))

InitLegacy ==
  /\ files \in Catalogs
  /\ app = PageLoaded(Storage(NoFlag, NULL, NoOptions, NULL, NULL,
                              Names(files)), TRUE, 0)
  /\ ev = Event("init", 0)

NextLegacy ==
  \/ ListingArrives \/ LegacyFetchSettles \/ Timer1000
  \/ LegacyClickPlayPause \/ LegacySpeed \/ LegacyTick
  \/ LegacyClickPrev \/ LegacyClickNext

SpecLegacy == InitLegacy /\ [][NextLegacy]_vars

(* ------------- the second copy: clicks while the files load ----------- *)
\* click handler of a rendered feature, second copy: the selection it makes
LegacySelected(s, k) ==
  [s EXCEPT !.boundary.highlighted =
               (IF Truthy(s.selection.uid) THEN {} ELSE @) \cup {k},
            !.selection = [uid |-> LayerOfFile(s, s.boundary.file).features[k].uid,
                           feature |-> Ref(s.boundary.file, k),
                           layer |-> Ref(s.boundary.file, k)]]
\* click handler of rendered feature k, second copy
LegacyClickFeature(s, k) ==
  IF s.selection.uid = LayerOfFile(s, s.boundary.file).features[k].uid
  THEN updateMarkers(hideChart(
         [s EXCEPT !.selection = [uid |-> NULL, feature |-> NoRef, layer |-> NoRef],
                   !.boundary.highlighted = @ \ {k}]))
  ELSE updateMarkers(
         enableUidIfNoneActive(
           LegacyUpdatePolygonChart(LegacySelected(s, k),
                                    Ref(s.boundary.file, k))))

LegacyClick ==
  /\ app.boundary.present /\ app.boundary.onMap
  /\ \E k \in app.boundary.rendered :
        Step("click", k, LegacyClickFeature(app, k))

NextSeries ==
  \/ ListingArrives \/ LegacyFetchSettles
  \/ LegacyClickPrev \/ LegacyClickNext \/ LegacyClick

SpecSeries == InitLegacy /\ [][NextSeries]_vars

(***************************************************************************)
(* src/script.js, first copy (lines 1-1150): the selection is the three    *)
(* fields selectedFeatureUid / selectedFeature / selectedLayer, held here  *)
(* in selection.uid / .feature / .layer; showLayerAtIndex re-selects       *)
(* through the top-level selectPolygonByUid.  updateMarkers (746-783) of   *)
(* this copy acts as the modular one above, which stands for it.           *)
(***************************************************************************)
\* updatePolygonChart of the first copy (no cache)
OldUpdatePolygonChart(s, ref) ==
  LET uid == FeatureAt(s, ref).uid
      series == SortByDate(DataPoints(s.geojsonLayers, uid, 1))
      s1 == [s EXCEPT !.chart.uid = uid]
  IN IF ~s1.chartLib THEN s1
     ELSE IF ~HasCurrentLayer(s1) THEN [s1 EXCEPT !.error = "TypeError"]
     ELSE LET cur == extractTimestampFromFileName(CurrentLayer(s1).fileName)
          IN [s1 EXCEPT !.chart =
                [display |-> TRUE, uid |-> uid,
                 points |-> SubSeq(series, 1, UpToCurrent(series, cur)),
                 marked |-> UpToCurrent(series, cur)]]

\* updateBoundaryLayer of the first copy: no guard on a missing step
OldUpdateBoundaryLayer(s) ==
  IF ~HasCurrentLayer(s)
  THEN [s EXCEPT !.boundary.onMap = FALSE, !.selection.feature = NoRef,
                 !.selection.layer = NoRef, !.error = "TypeError"]
  ELSE updateBoundaryLayer(s)

\* the top-level selectPolygonByUid of the first copy
RECURSIVE OldSelectEach(_, _, _)
OldSelectEach(s, uid, k) ==
  IF k > Len(CurrentLayer(s).features) THEN s
  ELSE LET f == CurrentLayer(s).features[k]
           r == Ref(CurrentLayer(s).fileName.rank, k)
       IN IF k \in s.boundary.rendered /\ f.uid = uid
          THEN OldSelectEach(
                 OldUpdatePolygonChart(
                   [s EXCEPT !.selection.feature = r, !.selection.layer = r,
                             !.boundary.highlighted = @ \cup {k}], r),
                 uid, k + 1)
          ELSE OldSelectEach(s, uid, k + 1)
OldSelectPolygonByUid(s, uid) ==
  LET s1 == OldSelectEach(s, uid, 1)
  IN IF s1.selection.feature # NoRef THEN [s1 EXCEPT !.selection.uid = uid]
     ELSE hideChart([s1 EXCEPT !.selection =
                       [uid |-> NULL, feature |-> NoRef, layer |-> NoRef]])

\* showLayerAtIndex of the first copy
OldShowLayerAtIndex(s, index) ==
  IF Lt(index, 0) \/ Ge(index, Length(s)) THEN s
  ELSE
    LET s1 == OldUpdateBoundaryLayer(
                [s EXCEPT !.boundary = NoBoundary, !.markers = {},
                          !.currentIndex = index])
        s2 == IF Truthy(s1.selection.uid)
              THEN OldSelectPolygonByUid(s1, s1.selection.uid) ELSE s1
    IN IF s2.error # s.error THEN s2
       ELSE [updateTimestampInfo(updateMarkers(s2)) EXCEPT
               !.slider.value = RangeSanitize(index, s2.slider.max)]

\* the click handler the first copy binds to rendered feature k
OldClickFeature(s, k) ==
  LET f == LayerOfFile(s, s.boundary.file).features[k]
      r == Ref(s.boundary.file, k)
  IN IF s.selection.uid = f.uid
     THEN updateMarkers(hideChart(
            [s EXCEPT !.selection = [uid |-> NULL, feature |-> NoRef, layer |-> NoRef],
                      !.boundary.highlighted = @ \ {k}]))
     ELSE LET s1 == [resetStyleAll(s) EXCEPT
                       !.boundary.highlighted = @ \cup {k},
                       !.selection = [uid |-> f.uid, feature |-> r, layer |-> r]]
              s2 == OldUpdatePolygonChart(s1, r)
              s3 == IF \A d \in DISPLAY_KEYS : ~s2.displayOptions[d]
                    THEN [s2 EXCEPT !.displayOptions["uid"] = TRUE]
                    ELSE s2
          IN updateMarkers(s3)

\* the map click handler the first copy registers in updateBoundaryLayer
OldMapClick(s) ==
  IF ~Truthy(s.selection.uid) THEN s
  ELSE updateMarkers(hideChart(
         [resetStyleAll(s) EXCEPT
            !.selection = [uid |-> NULL, feature |-> NoRef, layer |-> NoRef]]))

\* loadBoundaryLayers of the first copy: the fetch of one file settles
OldFetchSettled(s, layer, ok) ==
  LET s1 == [s EXCEPT !.fetching = @ \ {layer.fileName.rank},
                      !.geojsonLayers = IF ok THEN Append(@, layer) ELSE @]
  IN IF s1.fetching # {} \/ Length(s1) = 0
     THEN (IF s1.fetching = {} THEN [s1 EXCEPT !.load = "failed"] ELSE s1)
     ELSE
       LET n == Length(s1)
           s2 == [s1 EXCEPT !.geojsonLayers = SortByName(@),
                            !.slider = [disabled |-> FALSE, max |-> n - 1,
                                        value |-> n - 1]]
       IN [OldShowLayerAtIndex(s2, n - 1) EXCEPT !.playing = FALSE,
                                                 !.load = "ready"]

OldFetchSettles ==
  /\ app.load = "fetching"
  /\ \E l \in Range(files), ok \in BOOLEAN :
        /\ l.fileName.rank \in app.fetching
        /\ ok \/ Cardinality(Names(files) \ app.fetching)
                   - Length(app) < MaxFailed
        /\ Step("fetched", l.fileName.rank, OldFetchSettled(app, l, ok))
OldClick ==
  /\ app.boundary.present /\ app.boundary.onMap
  /\ \E k \in app.boundary.rendered : Step("click", k, OldClickFeature(app, k))
OldClickMap ==
  /\ app.boundary.present
  /\ Step("mapclick", 0, OldMapClick(app))
OldClickPrev == Step("prev", 0, OldShowLayerAtIndex(app, prevIndex(app)))
OldClickNext == Step("next", 0, OldShowLayerAtIndex(app, nextIndex(app)))
OldSliderInput ==
  /\ ~app.slider.disabled
  /\ \E v \in 0 .. app.slider.max :
        /\ v # app.slider.value
        /\ Step("slider", v,
                OldShowLayerAtIndex([app EXCEPT !.slider.value = v],
                                    parseInt(IndexToString(v))))

NextOld ==
  \/ ListingArrives \/ OldFetchSettles
  \/ OldClick \/ OldClickMap
  \/ OldClickPrev \/ OldClickNext \/ OldSliderInput

SpecOld == InitLegacy /\ [][NextOld]_vars

(* ------------------ the catalog load, fetch by fetch ------------------ *)
\* the fetches of loadBoundaryLayers settle one at a time, in any order
FetchSettles ==
  /\ app.load = "fetching"
  /\ \E rank \in app.fetching, ok \in BOOLEAN :
        /\ ok \/ Cardinality(app.failed) < MaxFailed
        /\ Step("fetched", rank, fetchSettled(app, files, rank, ok))

NextLoad ==
  \/ ListingArrives \/ FetchSettles \/ Timer500 \/ Timer1000
  \/ SliderInput \/ ClickPrev \/ ClickNext

SpecLoad == Init /\ [][NextLoad]_vars

(* ------------- the chart while Chart.js may be missing ---------------- *)
InitChart ==
  /\ files \in Catalogs
  /\ \E lib \in BOOLEAN :
        app = PageLoaded(Storage(NoFlag, NULL, NoOptions, NULL, NULL,
                                 Names(files)), lib, 0)
  /\ ev = Event("init", 0)

NextChart ==
  \/ ListingArrives \/ FilesSettled \/ Timer1000
  \/ ClickFeature \/ ChangeThreshold \/ ClickPrev \/ ClickNext
  \/ ChartJsLoads \/ ChartRetry

SpecChart == InitChart /\ [][NextChart]_vars

(* ----------------------- the trajectory overlay ----------------------- *)
\* the user clicks the trajectory checkbox
ToggleTrajectory ==
  Step("trajectory", 0,
       updateTrajectoryDisplay([app EXCEPT !.traj.checked = ~@]))

\* a fetch of loadTrajectoryForCurrentLayer settles, with the data or with an
\* error (the server holds no trajectory file of that name)
TrajectoryFetchSettles ==
  \E f \in app.traj.fetches : \E ok \in BOOLEAN :
    Step("trajfetched", f.file, trajectoryFetched(app, f, ok))

InitTrajectory ==
  /\ files \in Catalogs
  /\ app = PageLoaded(Storage(NoFlag, NULL, NoOptions, NULL, NULL,
                              Names(files)), TRUE, 0)
  /\ ev = Event("init", 0)

NextTrajectory ==
  \/ ListingArrives \/ FilesSettled \/ Timer1000
  \/ ToggleTrajectory \/ TrajectoryFetchSettles
  \/ ChangeThreshold \/ ClickNext

SpecTrajectory == InitTrajectory /\ [][NextTrajectory]_vars

(* ------------------- the trajectory cache and preload ----------------- *)
TrajectoryListArrives ==
  /\ ~app.traj.listed
  /\ Step("trajlist", 0, trajectoryFilesListed(app))
PreloadSettles ==
  \E rank \in app.traj.preloads : \E ok \in BOOLEAN :
    Step(IF ok THEN "preloaded" ELSE "preloadfailed", rank,
         preloadFetched(app, rank, ok))

NextCache ==
  \/ ListingArrives \/ FilesSettled
  \/ ToggleTrajectory \/ TrajectoryFetchSettles \/ ClickNext
  \/ TrajectoryListArrives \/ PreloadSettles

SpecCache == InitTrajectory /\ [][NextCache]_vars

(* ------------------- trajectory overlays and playback ----------------- *)
NextOverlay ==
  \/ ListingArrives \/ FilesSettled
  \/ ToggleTrajectory \/ TrajectoryFetchSettles
  \/ ClickNext \/ ClickPlayPause \/ Tick

SpecOverlay == InitTrajectory /\ [][NextOverlay]_vars

(* ------------------- waiting for a dependency ------------------------- *)
\* mapUtils.initialize has been called; Chart.js may never arrive
WaitForMap ==
  /\ app.mapInit.due
  /\ \E ready \in BOOLEAN :
        Step("waitformap", 0,
             [app EXCEPT !.mapInit = waitForMap(app.mapInit, ready)])
InitializeTimeout ==
  /\ app.mapInit.timeout
  /\ Step("inittimeout", 0,
          [app EXCEPT !.mapInit = initializeTimedOut(app.mapInit)])

InitRetry ==
  /\ files = CatalogTwo
  /\ app = [PageLoaded(Storage(NoFlag, NULL, NoOptions, NULL, NULL,
                               Names(files)), FALSE, 0)
              EXCEPT !.mapInit = MapInitStarted]
  /\ ev = Event("init", 0)

NextRetry ==
  \/ ListingArrives \/ FilesSettled
  \/ ClickFeature \/ ChartJsLoads \/ ChartRetry
  \/ WaitForMap \/ InitializeTimeout

\* timers fire; nothing makes the Chart.js script or the files arrive
SpecRetry ==
  /\ InitRetry /\ [][NextRetry]_vars
  /\ WF_vars(ChartRetry) /\ WF_vars(WaitForMap)

(* ------------------- start-up on malformed storage -------------------- *)
\* a page start inside the automatic-reload window on storage in which any
\* of the display options, the index, the map view and the listing may be
\* malformed, and the threshold present or absent
StoredOptions ==
  {[kind |-> "ok", uid |-> FALSE, status |-> TRUE],
   [kind |-> "bad", uid |-> FALSE, status |-> FALSE]}
StoredIndices == {"0", "7", "x"}
StoredViews == {MovedView, GarbledView}
InitMalformed ==
  /\ files \in Catalogs
  /\ \E opts \in StoredOptions, ix \in StoredIndices, view \in StoredViews,
        th \in {"5", NULL}, listing \in {Names(files), GarbledListing} :
        app = PageLoaded(
                [Storage(0, NULL, opts, th, ix, listing)
                   EXCEPT !.mapViewState = view],
                TRUE, 0)
  /\ ev = Event("init", 0)

NextMalformed ==
  \/ ListingArrives \/ FilesSettled \/ Timer1000

SpecMalformed == InitMalformed /\ [][NextMalformed]_vars

(* ------------------------ reloads and restore ------------------------- *)
\* the user pans or zooms the map: moveend / zoomend
MoveMap ==
  \E v \in Views \ {app.mapView} :
     Step("movemap", 0, saveMapViewState([app EXCEPT !.mapView = v]))

\* the reset button
RequestReset == Step("reset", 0, requestManualReset(app))

\* the user reloads the page
ManualReload ==
  Step("reload", 0, reloadPage(app, 0, "manual", FALSE))

\* the 60 s interval fires and its listing arrives
PeriodicCheck ==
  /\ app.checking
  /\ \E delay \in ReloadDelays :
        Step("check", 0, checkForNewBoundaryFiles(app, files, delay))

\* the tracking run publishes the next boundary file, or withdraws the oldest
FirstFiles == SubSeq(CatalogABA, 1, 2)
ServerPublishes ==
  /\ files = FirstFiles
  /\ files' = CatalogABA
  /\ ev' = Event("publish", 0)
  /\ UNCHANGED app
ServerWithdraws ==
  /\ Len(files) > 2
  /\ files' = Tail(files)
  /\ ev' = Event("withdraw", 0)
  /\ UNCHANGED app

\* storage as an earlier visit can have left it, found at time
\* AUTO_RELOAD_TIMEOUT: no flag, an unreadable one, one written at time 0
\* and one written a minute later
InitReload ==
  /\ files = FirstFiles
  /\ \E flag \in {NoFlag, GarbledFlag, 0, 1} :
        app = PageLoaded(
                [Storage(flag, "A", [kind |-> "ok", uid |-> TRUE, status |-> FALSE],
                         "2.5", "0", Names(files))
                   EXCEPT !.mapViewState = MovedView],
                TRUE, AUTO_RELOAD_TIMEOUT)
  /\ ev = Event("init", 0)
Interactive == app.loads < MaxLoads
NextReload ==
  \/ ListingArrives \/ FilesSettled \/ Timer500 \/ Timer1000
  \/ Interactive /\ ChangeThreshold
  \/ Interactive /\ ToggleOption
  \/ Interactive /\ KeyArrowLeft
  \/ Interactive /\ MoveMap
  \/ Interactive /\ RequestReset
  \/ ManualReload \/ PeriodicCheck
  \/ ServerPublishes \/ ServerWithdraws
SpecReload == InitReload /\ [][NextReload]_vars

\* one automatic reload of a page on which the user selects entities and
\* toggles the trajectory overlay
InitRestore ==
  /\ files = FirstFiles
  /\ app = PageLoaded(Storage(NoFlag, NULL, NoOptions, NULL, NULL,
                              Names(files)), TRUE, 0)
  /\ ev = Event("init", 0)
NextRestore ==
  \/ ListingArrives \/ FilesSettled \/ Timer500 \/ Timer1000
  \/ Interactive /\ ClickFeature
  \/ Interactive /\ ChangeThreshold
  \/ Interactive /\ KeyArrowLeft
  \/ Interactive /\ ToggleTrajectory
  \/ TrajectoryFetchSettles
  \/ PeriodicCheck \/ ServerPublishes
SpecRestore == InitRestore /\ [][NextRestore]_vars

(***************************************************************************)
(*                              Properties                                 *)
(***************************************************************************)
Loaded == app.load = "ready"
Sel == app.selection
\* the handlers that call showLayerAtIndex with an index computed from the
\* user's input or the playback timer
NavOps == {"prev", "next", "left", "right", "slider", "tick"}
\* the features of the step shown in s that have uid u and pass the filter of s
PresentIn(s, u) ==
  {k \in DOMAIN CurrentLayer(s).features :
     /\ CurrentLayer(s).features[k].uid = u
     /\ NumEq(parseFloat(CurrentLayer(s).features[k].threshold),
              parseFloat(s.currentThresholdFilter))}

\* C1: in every reachable state of the modular viewer, a non-null
\* selection.feature comes with a non-null selection.layer, a non-null
\* selection.layer comes with a non-null selection.uid, and the selected
\* feature carries the selected uid.
SelectionInvariant ==
  /\ Sel.feature # NoRef => Sel.layer # NoRef
  /\ Sel.layer # NoRef => Sel.uid # NULL
  /\ Sel.feature # NoRef => FeatureAt(app, Sel.feature).uid = Sel.uid
\* the delayed restore-by-uid after a reload has found its feature
SelectionRestoredByUid == ev.op = "timer500" /\ Sel.feature # NoRef

\* C2: a navigation to a valid index with uid u selected leaves
\* selection.uid = u; when the step shown has no feature with uid u passing
\* the threshold filter, selection.feature and selection.layer are null
\* afterwards, the chart is hidden and no error was raised.
UidSurvivesNavigation ==
  [][ ( /\ ev'.op \in NavOps
        /\ Length(app) > 0 /\ IsNum(app.currentIndex)
        /\ app.selection.uid # NULL )
      => /\ app'.selection.uid = app.selection.uid
         /\ (PresentIn(app', app.selection.uid) = {}
              => /\ app'.selection.feature = NoRef
                 /\ app'.selection.layer = NoRef
                 /\ ~app'.chart.display
                 /\ app'.error = app.error) ]_vars

\* the timestamps of the loaded steps that hold a feature with uid u
SeriesStamps(s, u) ==
  {extractTimestampFromFileName(l.fileName) :
     l \in {m \in Range(s.geojsonLayers) :
              /\ \E f \in Range(m.features) : f.uid = u
              /\ m.fileName.stamp # NoStamp}}
\* q lists exactly the members of S in ascending order
AscendingListOf(q, S) ==
  /\ Len(q) = Cardinality(S)
  /\ Range(q) = S
  /\ \A i \in 1 .. (Len(q) - 1) : q[i] < q[i + 1]

\* C3: a navigation with uid u selected to a step that holds a feature with
\* uid u passing the threshold leaves selection.feature and selection.layer
\* referring to that feature of the step shown, and triggers the chart
\* update: with Chart.js loaded the chart shows u's series up to the step
\* shown (hidden only when u has no dated step), without it the update is
\* pending.  In the catalog with A in the first and third step only,
\* returning to the third step with A selected (and passing the filter)
\* shows exactly two points.
ReselectOnReturn ==
  /\ [][ ( /\ ev'.op \in NavOps
            /\ Length(app) > 0 /\ IsNum(app.currentIndex)
            /\ app.selection.uid # NULL
            /\ PresentIn(app', app.selection.uid) # {} )
          => LET u == app.selection.uid
                 cur == extractTimestampFromFileName(CurrentLayer(app').fileName)
             IN /\ app'.selection.uid = u
                /\ app'.selection.feature \in
                      {Ref(CurrentLayer(app').fileName.rank, k) :
                         k \in PresentIn(app', u)}
                /\ app'.selection.layer = app'.selection.feature
                /\ IF ~app.chartLib
                   THEN app'.selection.feature \in app'.pendingChart
                   ELSE IF SeriesStamps(app', u) = {} THEN ~app'.chart.display
                   ELSE /\ app'.chart.display
                        /\ app'.chart.uid = u
                        /\ AscendingListOf(app'.chart.points,
                              {x \in SeriesStamps(app', u) :
                                 DateOf(x) <= DateOf(cur)}) ]_vars
  /\ [] ( ( /\ files = CatalogABA /\ Length(app) = 3
             /\ ev.op \in NavOps /\ app.currentIndex = 2
             /\ Sel.uid = "A" /\ PresentIn(app, "A") # {} /\ app.chartLib )
           => app.chart.display /\ Len(app.chart.points) = 2 )
\* A was selected, a step without A was shown, and the step with A is shown again
ReturnedToSelected ==
  /\ files = CatalogABA /\ Length(app) = 3
  /\ ev.op = "next" /\ app.currentIndex = 2
  /\ Sel.uid = "A" /\ Sel.feature = Ref(3, 2)
  /\ app.chart.display /\ Len(app.chart.points) = 2

\* C4: once the catalog is loaded, between any two event callbacks the view
\* is consistent: currentIndex is a loaded step, the boundary layer on the
\* map renders exactly the features of that step that pass
\* currentThresholdFilter, the slider value is currentIndex and the timestamp
\* label is the one derived from that step's file name; after a slider
\* input j, currentIndex is j.
ViewConsistent ==
  /\ Loaded =>
       /\ HasCurrentLayer(app)
       /\ app.boundary.present /\ app.boundary.onMap
       /\ app.boundary.file = CurrentLayer(app).fileName.rank
       /\ app.boundary.rendered =
            {k \in DOMAIN CurrentLayer(app).features :
               NumEq(parseFloat(CurrentLayer(app).features[k].threshold),
                     parseFloat(app.currentThresholdFilter))}
       /\ app.slider.value = app.currentIndex
       /\ app.trackInfo =
            (IF CurrentLayer(app).fileName.stamp = NoStamp THEN NoStamp
             ELSE CurrentLayer(app).fileName.stamp + TIME_OFFSET * 60
                    + TIME_INCREMENT)
  /\ ev.op = "slider" => app.currentIndex = ev.arg
\* a threshold change re-rendered a step reached by navigation, and the new
\* filter hides some feature of it and shows another
FilterChangedAfterNavigation ==
  /\ Loaded /\ ev.op = "threshold"
  /\ app.currentIndex # Length(app) - 1
  /\ app.boundary.rendered # {}
  /\ app.boundary.rendered # DOMAIN CurrentLayer(app).features

\* C5: a click on the previous or next button while no step is loaded (the
\* handler computes its index by a modulo on the empty catalog) takes no
\* action: currentIndex, the rendered boundary layer, the markers, the
\* selection and the slider value are unchanged.
InvalidIndexIsNoOp ==
  [][ (ev'.op \in {"prev", "next"} /\ Length(app) = 0)
      => /\ app'.currentIndex = app.currentIndex
         /\ app'.boundary = app.boundary
         /\ app'.markers = app.markers
         /\ app'.selection = app.selection
         /\ app'.slider.value = app.slider.value ]_vars

\* C6: on a loaded catalog of n steps currentIndex is an integer in
\* 0 .. n-1 after every event; previous (button or arrow key) from 0 shows
\* step n-1, and next (button, arrow key or playback tick) from n-1 shows
\* step 0.
IndexInRangeAndWraps ==
  /\ [] (Loaded => /\ Length(app) >= 1
                    /\ app.currentIndex \in 0 .. (Length(app) - 1))
  /\ [][ /\ ( (Loaded /\ ev'.op \in {"prev", "left"} /\ app.currentIndex = 0)
                => app'.currentIndex = Length(app) - 1 )
          /\ ( ( /\ Loaded /\ ev'.op \in {"next", "right", "tick"}
                 /\ app.currentIndex = Length(app) - 1 )
                => app'.currentIndex = 0 ) ]_vars
\* a playback tick has wrapped from the last of three steps to the first
TickWrapped ==
  /\ Loaded /\ Length(app) = 3 /\ ev.op = "tick"
  /\ ev.start = 1 /\ ev.shown = << 2, 0 >>

\* C7: each playback tick shows step (currentIndex + 1) mod n; on a catalog
\* of two steps, playback started at index 0 shows step 1 at its first tick
\* and step 0 at its second.
TickAdvancesModulo ==
  /\ [][ (ev'.op = "tick" /\ Length(app) > 0 /\ IsNum(app.currentIndex))
          => app'.currentIndex = (app.currentIndex + 1) % Length(app) ]_vars
  /\ [] ( (Length(app) = 2 /\ ev.start = 0)
           => /\ (Len(ev.shown) >= 1 => ev.shown[1] = 1)
              /\ (Len(ev.shown) >= 2 => ev.shown[2] = 0) )
\* two ticks after play was pressed at index 0 of a two-step catalog
TwoTicksFromZero ==
  /\ Length(app) = 2 /\ app.playing /\ ev.op = "tick"
  /\ ev.start = 0 /\ Len(ev.shown) = 2 /\ app.currentIndex = 0

\* C8: at most one playback interval timer is active, and one is active
\* exactly when state.playing is true; a speed change while playing replaces
\* the timer and leaves currentIndex unchanged.
OneTimerIffPlaying ==
  /\ [] ( /\ Cardinality(app.timers) <= 1
          /\ app.timers # {} <=> app.playing )
  /\ [][ (ev'.op = "speed" /\ app.playing)
          => /\ Cardinality(app'.timers) = 1
             /\ app'.timers # app.timers
             /\ app'.currentIndex = app.currentIndex ]_vars

\* the feature rendered as number k of the boundary layer of s
Rendered(s, k) == LayerOfFile(s, s.boundary.file).features[k]
\* the markers of the marker derivation with no selection: one for each
\* feature of the step shown that passes the threshold filter and has an
\* enabled display attribute present
MarkersOfAll(s) ==
  {[f |-> Ref(CurrentLayer(s).fileName.rank, k),
    keys |-> {d \in DISPLAY_KEYS :
                s.displayOptions[d] /\ d \in CurrentLayer(s).features[k].props}] :
     k \in {j \in DOMAIN CurrentLayer(s).features :
              /\ NumEq(parseFloat(CurrentLayer(s).features[j].threshold),
                       parseFloat(s.currentThresholdFilter))
              /\ \E d \in DISPLAY_KEYS :
                    s.displayOptions[d] /\ d \in CurrentLayer(s).features[j].props}}

\* C9: a click on a rendered feature whose uid is selection.uid sets
\* selection.uid, selection.feature and selection.layer to null, leaves that
\* feature in default style, hides the chart, and the markers afterwards are
\* those of every threshold-passing feature of the step shown, not of one.
DeselectClearsAll ==
  [][ ( /\ ev'.op = "click"
        /\ Rendered(app, ev'.arg).uid = app.selection.uid )
      => /\ app'.selection = [uid |-> NULL, feature |-> NoRef, layer |-> NoRef]
         /\ ev'.arg \notin app'.boundary.highlighted
         /\ ~app'.chart.display
         /\ app'.markers = MarkersOfAll(app') ]_vars

\* C10: a click on a rendered feature F whose uid differs from selection.uid
\* sets selection uid / feature / layer to F, and afterwards F is the only
\* rendered feature in selected style.
SelectHighlightsOnlyClicked ==
  [][ ( /\ ev'.op = "click"
        /\ Rendered(app, ev'.arg).uid # app.selection.uid )
      => /\ app'.selection =
              [uid |-> Rendered(app, ev'.arg).uid,
               feature |-> Ref(app.boundary.file, ev'.arg),
               layer |-> Ref(app.boundary.file, ev'.arg)]
         /\ app'.boundary.highlighted = {ev'.arg} ]_vars

\* C11: a click on the map background while a selection exists leaves
\* selection uid / feature / layer null, every rendered feature (the one that
\* was selected included) in default style, the chart hidden and the markers
\* those of every threshold-passing feature, as a click on the selected
\* feature does.
BackgroundClickClears ==
  [][ (ev'.op = "mapclick" /\ app.selection.uid # NULL)
      => /\ app'.selection = [uid |-> NULL, feature |-> NoRef, layer |-> NoRef]
         /\ app'.boundary.highlighted = {}
         /\ ~app'.chart.display
         /\ app'.markers = MarkersOfAll(app')
         /\ \A k \in app.boundary.rendered :
               (app.selection.feature = Ref(app.boundary.file, k)
                  /\ app.boundary.highlighted = {k})
               => app' = clickFeature(app, k) ]_vars

\* C12: passesThreshold(f) is true exactly when f has a threshold property
\* whose parsed number equals the parsed number of currentThresholdFilter,
\* and the boundary layer rendered by a threshold change holds exactly those
\* features; a threshold change modifies neither the stored features of any
\* step, nor currentIndex, nor selection.uid.
ThresholdIsPurePredicate ==
  /\ [] ( \A l \in Range(app.geojsonLayers) : \A f \in Range(l.features) :
            passesThreshold(app, f)
              <=> ( /\ f.threshold # UNDEFINED
                    /\ IsNum(parseFloat(f.threshold))
                    /\ IsNum(parseFloat(app.currentThresholdFilter))
                    /\ parseFloat(f.threshold)
                         = parseFloat(app.currentThresholdFilter) ) )
  /\ [] ( (ev.op = "threshold" /\ Loaded)
           => app.boundary.rendered =
                {k \in DOMAIN CurrentLayer(app).features :
                   LET f == CurrentLayer(app).features[k]
                   IN /\ f.threshold # UNDEFINED
                      /\ IsNum(parseFloat(f.threshold))
                      /\ parseFloat(f.threshold) = ev.arg} )
  /\ [][ ev'.op = "threshold"
          => /\ app'.geojsonLayers = app.geojsonLayers
             /\ app'.currentIndex = app.currentIndex
             /\ app'.selection.uid = app.selection.uid
             /\ parseFloat(app'.currentThresholdFilter) = ev'.arg ]_vars
\* a threshold change rendered a feature whose threshold text differs from
\* the filter text, in a step that holds a feature without threshold, while
\* a uid was selected
FilterMatchesByNumber ==
  /\ Loaded /\ ev.op = "threshold" /\ Sel.uid # NULL
  /\ \E k \in app.boundary.rendered :
        CurrentLayer(app).features[k].threshold # app.currentThresholdFilter
  /\ \E f \in Range(CurrentLayer(app).features) : f.threshold = UNDEFINED

\* every fetch in flight has delivered its data
RECURSIVE SettleAll(_)
SettleAll(s) ==
  IF s.traj.fetches = {} THEN s
  ELSE SettleAll(trajectoryFetched(s, CHOOSE f \in s.traj.fetches : TRUE, TRUE))
\* how many overlay layers of each file are on the map
OverlayCount(s) ==
  [r \in {l.fileName.rank : l \in Range(s.geojsonLayers)} |->
     Cardinality({o \in s.traj.layers : o.file = r})]

\* C13: for every valid i, showLayerAtIndex(i) called twice in a row leaves
\* the same rendered boundary features, the same rendered trajectory
\* overlays (once the fetches started have delivered) and the same
\* selection as showLayerAtIndex(i) called once.
ShowTwiceIsShowOnce ==
  Loaded =>
    \A i \in 0 .. (Length(app) - 1) :
      LET once == showLayerAtIndex(app, i)
          twice == showLayerAtIndex(once, i)
      IN /\ twice.boundary = once.boundary
         /\ twice.selection = once.selection
         /\ OverlayCount(SettleAll(twice)) = OverlayCount(SettleAll(once))

\* the page was started by a reload that followed handleAutoReload, less than
\* AUTO_RELOAD_TIMEOUT after it, and its catalog load and restore are done
(* helper of C14, C15, C16 *)
RestoredAfterSnapshot ==
  /\ app.cause = "check" /\ app.snap.taken
  /\ app.now - app.snap.at < AUTO_RELOAD_TIMEOUT
  /\ app.load = "ready"

\* C14: after handleAutoReload, a reload and a start inside the automatic
\* reload window, once the catalog is loaded and restored, currentIndex, the
\* threshold filter and the display options are those of snapshot time
\* (provided the saved index is still in range).
RestoreRoundTrip ==
  (RestoredAfterSnapshot /\ app.snap.index \in 0 .. (Length(app) - 1)) =>
     /\ app.currentIndex = app.snap.index
     /\ app.currentThresholdFilter = app.snap.threshold
     /\ app.displayOptions = app.snap.options

\* C15: after an automatic reload, when the catalog is loaded and both delayed
\* restore steps (500 ms and 1000 ms) have run, selection.uid is the uid that
\* was selected at snapshot time, or null if none was, whether or not that
\* entity has a feature passing the threshold in the step shown.
SelectionUidRestored ==
  (RestoredAfterSnapshot /\ app.t500 = NULL /\ ~app.t1000) =>
     app.selection.uid = app.snap.uid

\* the trajectory overlay of the step shown is on the map or being fetched
TrajectoryLoading(s) ==
  /\ HasCurrentLayer(s)
  /\ \E o \in s.traj.layers \cup s.traj.fetches :
        o.file = CurrentLayer(s).fileName.rank

\* C16: after an automatic reload, when the last delayed restore step has
\* run, the trajectory checkbox has the value it had at snapshot time, and if
\* it was checked the trajectory overlay of the restored step is loaded.
TrajectoryToggleRestored ==
  (RestoredAfterSnapshot /\ ev.op = "timer1000") =>
     /\ app.traj.checked = app.snap.trajectory
     /\ app.snap.trajectory => TrajectoryLoading(app)

\* the flag the page found is the text of a time less than
\* AUTO_RELOAD_TIMEOUT before the page started
FoundValidFlag ==
  app.found.autoReload >= 0
  /\ app.now - app.found.autoReload < AUTO_RELOAD_TIMEOUT
\* the page found no valid automatic-reload flag and no reset flag
ManualStart == ~FoundValidFlag /\ ~app.found.manualReset
\* the view settings a restore could change
Settings(s) ==
  << s.selection.uid, s.currentIndex, s.currentThresholdFilter,
     s.displayOptions, s.playing >>

\* C17: a page start without a valid automatic-reload flag and without a
\* reset flag applies the saved map viewport and no other saved setting.  The
\* page starts with the default threshold filter, all display options off and
\* no selection; the viewport stored when the previous page was left is the
\* one this page finds; completing the load shows the last step with no
\* selection and playback stopped and leaves filter and options alone; the
\* delayed steps change none of these, and the 1000 ms step sets the map to
\* the stored viewport.
ManualStartKeepsOnlyViewport ==
  /\ []((ManualStart /\ app.load = "listing"
           /\ ev.op \in {"init", "reload", "check", "listing"}) =>
          /\ app.currentThresholdFilter = DEFAULT_THRESHOLD
          /\ \A d \in DISPLAY_KEYS : ~app.displayOptions[d]
          /\ app.selection.uid = NULL
          /\ app.mapView = DefaultView)
  /\ [][(app'.loads = app.loads + 1 /\ ManualStart') =>
          /\ app'.found.mapViewState = app.mapView
          /\ app'.ls.mapViewState = app.mapView]_vars
  /\ [][(ManualStart' /\ ev'.op = "loaded" /\ app'.load = "ready") =>
          /\ app'.selection.uid = NULL
          /\ app'.currentIndex = Length(app') - 1
          /\ ~app'.playing
          /\ app'.currentThresholdFilter = app.currentThresholdFilter
          /\ app'.displayOptions = app.displayOptions
          /\ app'.t500 = NULL]_vars
  /\ [][(ManualStart' /\ ev'.op \in {"timer500", "timer1000"}) =>
          Settings(app') = Settings(app)]_vars
  /\ [][(ManualStart' /\ ev'.op = "timer1000"
           /\ app.ls.mapViewState # NULL) =>
          app'.mapView = app.ls.mapViewState]_vars
\* a manual reload of a page with another index, filter, option and viewport
\* than the defaults has loaded two steps and run its delayed steps
ManualReloadRestoredViewport ==
  /\ app.cause = "manual" /\ ManualStart
  /\ ev.op = "timer1000"
  /\ app.snap.view = MovedView /\ app.mapView = MovedView
  /\ app.snap.threshold = "5" /\ app.currentThresholdFilter = DEFAULT_THRESHOLD
  /\ app.snap.options["status"] /\ ~app.displayOptions["status"]
  /\ app.snap.uid = "A" /\ app.selection.uid = NULL
  /\ app.snap.index = 0 /\ app.currentIndex = 1

\* C18: after the user requested a reset and reloaded the page, the next
\* start applies no saved state: when its load and delayed steps are done the
\* map is at the default view, nothing is selected, the last step is shown and
\* filter and display options are the defaults.
ResetReloadStartsClean ==
  (/\ app.cause = "manual" /\ app.snap.reset
   /\ app.load = "ready" /\ ev.op = "timer1000") =>
     /\ app.mapView = DefaultView
     /\ app.selection.uid = NULL
     /\ app.currentIndex = Length(app) - 1
     /\ app.currentThresholdFilter = DEFAULT_THRESHOLD
     /\ \A d \in DISPLAY_KEYS : ~app.displayOptions[d]

\* C19: a page start is classified automatic exactly when the flag it found
\* is present, parses as a time and is less than AUTO_RELOAD_TIMEOUT old, and
\* manual otherwise; loadState leaves neither the automatic-reload flag nor
\* the reset flag in storage; a reload by the user, which writes no flag,
\* starts a page classified manual.
ClassifiedByFlag ==
  /\ [](app.shouldRestoreState <=>
          (/\ app.found.autoReload # NoFlag
           /\ app.found.autoReload # GarbledFlag
           /\ app.now - app.found.autoReload < AUTO_RELOAD_TIMEOUT))
  /\ []((app.load = "listing"
           /\ ev.op \in {"init", "reload", "check", "listing"}) =>
          (app.ls.autoReload = NoFlag /\ ~app.ls.manualReset))
  /\ [][(ev'.op = "reload") =>
          (app'.found.autoReload = NoFlag /\ ~app'.shouldRestoreState)]_vars
\* a page that started one minute inside the window after an automatic
\* reload: classified automatic, and the flag is consumed
StartedInsideWindow ==
  /\ app.cause = "check" /\ ev.op = "check"
  /\ app.found.autoReload = app.snap.at
  /\ app.now - app.found.autoReload = AUTO_RELOAD_TIMEOUT - 1
  /\ app.shouldRestoreState
  /\ app.ls.autoReload = NoFlag

\* C20: when the periodic check or the check at the start of the catalog load
\* receives a listing with a file name the stored listing lacks, the page is
\* reloaded with the automatic-reload flag written at that moment, so a next
\* start inside the window is classified automatic and restores; a listing
\* that adds no name leaves the page running.
NewFileSnapshotsAndReloads ==
  [][(ev'.op \in {"check", "listing"} /\ Len(files) > 0) =>
       IF Names(files) \ app.ls.boundaryFiles # {}
       THEN /\ app'.loads = app.loads + 1
            /\ app'.found.autoReload = app.now
            /\ (app'.now - app.now < AUTO_RELOAD_TIMEOUT) =>
                  app'.shouldRestoreState
       ELSE app'.loads = app.loads]_vars

\* the file ranks of the loaded steps, in catalog order
LoadedRanks(s) ==
  [i \in 1 .. Len(s.geojsonLayers) |-> s.geojsonLayers[i].fileName.rank]

NavigationWaitsForLoad ==
  [][(/\ app.load \in {"listing", "fetching"}
      /\ ev'.op \in NavOps \cup {"playpause", "space"})
     => /\ app'.currentIndex = app.currentIndex
        /\ app'.boundary = app.boundary
        /\ app'.slider = app.slider
        /\ app'.playing = app.playing
        /\ app'.timers = app.timers]_vars

\* C23: no step starts a trajectory fetch for a step whose trajectory data is
\* cached; no step takes a file out of the cache; and no fetch that delivers
\* (of loadTrajectoryForCurrentLayer or of the preload) writes the
\* trajectory data of a step whose cache slot is already filled.
TrajectoryCachedOnce ==
  [][/\ \A f \in app'.traj.fetches \ app.traj.fetches :
          f.file \notin app.traj.cache
     /\ app'.traj.preloads \ app.traj.preloads \subseteq
          {r \in app'.traj.preloads : r \notin app.traj.cache}
     /\ app.traj.cache \subseteq app'.traj.cache
     /\ ~(/\ ev'.op = "trajfetched"
          /\ app'.traj.layers # app.traj.layers
          /\ ev'.arg \in app.traj.cache)
     /\ ~(ev'.op = "preloaded" /\ ev'.arg \in app.traj.cache)]_vars

\* C24: when a trajectory fetch started for one step settles while another
\* step is displayed, core.state.currentTrajectoryLayer and the trajectory
\* overlays on the map stay as they were.
StaleFetchOnlyFillsCache ==
  [][(/\ ev'.op = "trajfetched"
      /\ HasCurrentLayer(app)
      /\ ev'.arg # CurrentLayer(app).fileName.rank)
     => /\ app'.traj.current = app.traj.current
        /\ app'.traj.layers = app.traj.layers]_vars

\* C25: when a trajectory fetch fails, the trajectory checkbox is unchecked
\* and no trajectory overlay is on the map afterwards.
FailedFetchLeavesNoOverlay ==
  [][(/\ ev'.op = "trajfetched"
      /\ app'.traj.layers = app.traj.layers
      /\ app'.traj.cache = app.traj.cache)
     => /\ ~app'.traj.checked
        /\ app'.traj.layers = {}]_vars

\* C26: on a start that restores, whatever stored value is malformed, no
\* error is raised and the catalog load does not fail; and once the load and
\* the delayed refresh are done, every setting holds its stored value when
\* that value is well-formed and its default when it is malformed or absent:
\* the display options, the threshold, the step shown and the map view,
\* each independently of the others.
MalformedStorageFallsBack ==
  /\ app.error = "none"
  /\ app.load # "failed"
  /\ (app.load = "ready" /\ ~app.t1000 /\ app.shouldRestoreState) =>
       /\ app.displayOptions =
            IF app.ls.displayOptions.kind = "ok"
            THEN [d \in DISPLAY_KEYS |->
                    IF d = "uid" THEN app.ls.displayOptions.uid
                    ELSE app.ls.displayOptions.status]
            ELSE [d \in DISPLAY_KEYS |-> FALSE]
       /\ app.currentThresholdFilter =
            IF Truthy(app.ls.thresholdFilter) THEN app.ls.thresholdFilter
            ELSE DEFAULT_THRESHOLD
       /\ app.currentIndex =
            IF /\ IsNum(parseInt(app.ls.currentLayerIndex))
               /\ parseInt(app.ls.currentLayerIndex) \in 0 .. (Length(app) - 1)
            THEN parseInt(app.ls.currentLayerIndex)
            ELSE Length(app) - 1
       /\ app.mapView =
            IF app.ls.mapViewState = MovedView THEN MovedView ELSE DefaultView

\* C27: waitForMap runs at most MAX_ATTEMPTS times, and after that many
\* checks the promise of mapUtils.initialize is settled and no check is due;
\* the promise is settled eventually; and whenever updateChart waits for
\* Chart.js, the waiting ends: eventually no retry is scheduled.
RetriesAreBounded ==
  /\ [](/\ app.mapInit.attempts <= MAX_ATTEMPTS
        /\ (app.mapInit.attempts = MAX_ATTEMPTS =>
              app.mapInit.promise # "pending" /\ ~app.mapInit.due))
  /\ <>(app.mapInit.promise # "pending")
  /\ ((app.pendingChart # {}) ~> (app.pendingChart = {}))

\* the marker set of a state in which every geometry type has a centroid:
\* one marker for each feature of the step shown that passes the threshold
\* filter (and carries the uid of selection.feature when there is one) and
\* has an enabled display attribute present
MarkersOfEveryGeometry(s) ==
  {[f |-> Ref(CurrentLayer(s).fileName.rank, k),
    keys |-> InfoKeys(s, CurrentLayer(s).features[k])] :
     k \in {j \in DOMAIN CurrentLayer(s).features :
              /\ passesThreshold(s, CurrentLayer(s).features[j])
              /\ (s.selection.feature # NoRef =>
                    CurrentLayer(s).features[j].uid =
                      FeatureAt(s, s.selection.feature).uid)
              /\ InfoKeys(s, CurrentLayer(s).features[j]) # {}}}
RenderOps ==
  {"loaded", "prev", "next", "left", "right", "slider", "threshold"}
SelectionOps == {"click", "mapclick", "close"}

\* C28: after every render, selection change or display-option change the
\* markers are exactly one for each feature of the step shown that passes
\* the threshold filter (only the selected one when a feature is selected)
\* and has an enabled display attribute present, whether its geometry is a
\* Polygon or a MultiPolygon; no marker is empty.
MarkersForEveryGeometry ==
  /\ [][ ( /\ ev'.op \in RenderOps \cup SelectionOps \cup {"option"}
           /\ HasCurrentLayer(app') )
         => app'.markers = MarkersOfEveryGeometry(app') ]_vars
  /\ [](\A m \in app.markers : m.keys # {})

\* C29: a click that selects a feature switches the uid display option on
\* exactly when no display option was enabled before it and otherwise leaves
\* the display options as they were, so after it at least one option is
\* enabled; a click that deselects, a click on the map background, closing
\* the chart and navigation never change the display options.
SelectEnablesUidOnlyIfNone ==
  [][ /\ ( /\ ev'.op = "click"
           /\ Rendered(app, ev'.arg).uid # app.selection.uid )
         => /\ app'.displayOptions =
                 IF \E d \in DISPLAY_KEYS : app.displayOptions[d]
                 THEN app.displayOptions
                 ELSE [app.displayOptions EXCEPT !["uid"] = TRUE]
            /\ \E d \in DISPLAY_KEYS : app'.displayOptions[d]
      /\ ( \/ ( /\ ev'.op = "click"
                /\ Rendered(app, ev'.arg).uid = app.selection.uid )
           \/ ev'.op \in {"mapclick", "close"} \cup NavOps )
         => app'.displayOptions = app.displayOptions ]_vars
\* a feature was clicked while no display option was enabled: it is selected
\* and uid is the one option enabled
SelectedWithUidEnabled ==
  /\ ev.op = "click" /\ ev.bare
  /\ app.selection.uid # NULL
  /\ app.displayOptions = [d \in DISPLAY_KEYS |-> d = "uid"]
  /\ app.markers # {}

\* the series of a uid over the steps loaded in s: the timestamp of every
\* step that holds a feature with the uid and whose file name carries a
\* timestamp, in chronological order
SeriesOfLoaded(s, uid) ==
  SortByDate(DataPoints(s.geojsonLayers, uid, 1))
RECURSIVE Chronological(_)
Chronological(series) ==
  \/ Len(series) < 2
  \/ /\ DateOf(series[1]) <= DateOf(series[2])
     /\ Chronological(Tail(series))

\* C30: whenever it is called, collectTimeSeriesData(uid) returns one data
\* point for each loaded step that holds a feature with the uid and has a
\* timestamp in its file name, in chronological order; in particular a
\* series kept in dataCache is that of the steps loaded now.
SeriesMatchesLoadedSteps ==
  \A uid \in Uids :
    /\ collectTimeSeriesData(app, uid) = SeriesOfLoaded(app, uid)
    /\ Chronological(collectTimeSeriesData(app, uid))
    /\ Len(collectTimeSeriesData(app, uid)) =
         Cardinality({k \in DOMAIN app.geojsonLayers :
            /\ \E f \in Range(app.geojsonLayers[k].features) : f.uid = uid
            /\ extractTimestampFromFileName(app.geojsonLayers[k].fileName)
                 # NoStamp})

\* the rendered features whose uid is the selected one
RenderedWithSelectedUid(s) ==
  IF s.selection.uid = NULL THEN {}
  ELSE {k \in s.boundary.rendered : Rendered(s, k).uid = s.selection.uid}

\* C31: after a render of a step, a select click, a deselect click, a click
\* on the map background, closing the chart or a threshold change, a
\* rendered boundary feature is in selected style exactly when selection.uid
\* is not null and equals the uid of that feature.
SelectedStyleIffSelectedUid ==
  ( /\ ev.op \in RenderOps \cup SelectionOps
    /\ app.boundary.present )
  => app.boundary.highlighted = RenderedWithSelectedUid(app)

\* no load, delayed step of the load or chart retry is outstanding
Quiescent(s) ==
  /\ s.load = "ready" /\ s.t500 = NULL /\ ~s.t1000
  /\ s.pendingChart = {}

\* C32: in a quiescent state in which selection.uid is not null and the
\* rendered boundary layer holds a feature with that uid (which therefore
\* passes the threshold), selection.feature and selection.layer refer to
\* such a feature and every marker belongs to a feature with that uid; so
\* also after a threshold change and after the delayed refresh of the load.
SelectionFollowsRenderedLayer ==
  ( /\ Quiescent(app)
    /\ app.boundary.present
    /\ RenderedWithSelectedUid(app) # {} )
  => /\ app.selection.feature \in
          {Ref(app.boundary.file, k) : k \in RenderedWithSelectedUid(app)}
     /\ app.selection.layer = app.selection.feature
     /\ \A m \in app.markers : FeatureAt(app, m.f).uid = app.selection.uid

\* C33: at most one trajectory overlay is on the map, and an overlay on the
\* map is the one core.state.currentTrajectoryLayer refers to, whatever the
\* order of navigation, playback ticks, changes of the trajectory checkbox
\* and completions of trajectory fetches.
OneOverlayAndItIsCurrent ==
  /\ Cardinality(app.traj.layers) <= 1
  /\ \A o \in app.traj.layers : o.id = app.traj.current

\* C34: a trajectory overlay is on the map only while the trajectory checkbox
\* is checked; a fetch that completes after the checkbox was unchecked
\* renders no overlay.
OverlayOnlyWhileChecked ==
  /\ [](app.traj.layers # {} => app.traj.checked)
  /\ [][ (ev'.op = "trajfetched" /\ ~app.traj.checked)
         => app'.traj.layers = app.traj.layers ]_vars

\* C35: the evolution chart is visible only while a feature is selected and
\* then shows the series of the selected uid; a chart update deferred until
\* the chart library has loaded does not show the chart once the selection
\* has been cleared or changed.
ChartOnlyForSelection ==
  app.chart.display =>
    /\ app.selection.feature # NoRef
    /\ app.chart.uid = app.selection.uid

\* C36: a page start forced by the detection of a new file (at the load or
\* by the periodic check) finds in storage the listing that was just
\* fetched, and a page whose listing holds no file missing from the stored
\* one does not reload but goes on to fetch the catalog; so a reload forced
\* by new files is not followed by another one while the listing stays as it
\* is.
ReloadStoresFetchedListing ==
  /\ [][ ( /\ app'.loads = app.loads + 1
           /\ app'.cause \in {"listing", "check"} )
         => /\ app'.ls.boundaryFiles = Names(files)
            /\ app'.load = "listing" ]_vars
  /\ [][ ( /\ ev'.op = "listing"
           /\ Len(files) > 0
           /\ Names(files) \subseteq app.ls.boundaryFiles )
         => /\ app'.loads = app.loads
            /\ app'.load = "fetching"
            /\ app'.fetching = Names(files) ]_vars
  /\ [][ ( /\ ev'.op = "listing"
           /\ app.cause \in {"listing", "check"}
           /\ app.ls.boundaryFiles = Names(files) )
         => app'.load = "fetching" /\ app'.loads = app.loads ]_vars
\* a page started by a reload that new files forced has received the listing
\* it was started for and fetches the catalog
ReloadedPageFetchesCatalog ==
  /\ app.loads = 1 /\ app.cause \in {"listing", "check"}
  /\ ev.op = "listing" /\ app.load = "fetching"
  /\ app.ls.boundaryFiles = Names(files)
  /\ files = CatalogABA

\* the entries of storage that make up a snapshot of handleAutoReload
SnapshotOf(ls) ==
  [autoReload |-> ls.autoReload, selectedSystemUid |-> ls.selectedSystemUid,
   displayOptions |-> ls.displayOptions, thresholdFilter |-> ls.thresholdFilter,
   currentLayerIndex |-> ls.currentLayerIndex,
   showTrajectory |-> ls.showTrajectory]

\* C37: when the periodic check reloads the page, the snapshot and the
\* automatic-reload marker handleAutoReload wrote are what the next page
\* finds in storage: the beforeunload handlers neither delete them nor
\* replace them by other values, also when a manual reset is pending.
SnapshotSurvivesUnload ==
  [][ ( /\ ev'.op = "check"
        /\ app'.loads = app.loads + 1 )
      => /\ app'.found.autoReload = handleAutoReload(app).ls.autoReload
         /\ app'.found.autoReload # NoFlag
         /\ SnapshotOf(beforeUnload(handleAutoReload(app)).ls)
              = SnapshotOf(handleAutoReload(app).ls) ]_vars

(* ------------------- the chart and the step shown --------------------- *)
\* the points of a series that are not later than the timestamp cur, in the
\* order of the series
RECURSIVE NotLaterThan(_, _)
NotLaterThan(series, cur) ==
  IF series = << >> THEN << >>
  ELSE IF DateOf(Head(series)) <= DateOf(cur)
       THEN << Head(series) >> \o NotLaterThan(Tail(series), cur)
       ELSE NotLaterThan(Tail(series), cur)

\* C38: while the chart is shown for the selected uid and a step is
\* displayed, the chart holds exactly the points of the uid's chronological
\* series that are not later than the timestamp of the step displayed, as a
\* prefix of that series, and the point drawn as current is its last point.
ChartIsPrefixUpToShownStep ==
  ( /\ app.chart.display
    /\ HasCurrentLayer(app)
    /\ app.selection.uid # NULL
    /\ app.chart.uid = app.selection.uid )
  => LET series == SeriesOfLoaded(app, app.chart.uid)
         cur == extractTimestampFromFileName(CurrentLayer(app).fileName)
     IN /\ Chronological(series)
        /\ app.chart.points = NotLaterThan(series, cur)
        /\ app.chart.points = SubSeq(series, 1, Len(app.chart.points))
        /\ app.chart.marked = Len(app.chart.points)
\* B selected on the second of three steps: two of its three points shown,
\* the second drawn as current
ChartShowsProperPrefix ==
  /\ files = CatalogABA
  /\ ev.op \in NavOps
  /\ app.chart.display
  /\ app.selection.uid = "B" /\ app.chart.uid = "B"
  /\ app.currentIndex = 1
  /\ Len(app.chart.points) = 2
  /\ Len(SeriesOfLoaded(app, "B")) = 3
  /\ app.chart.marked = 2

(* ------------- the series and the features that pass the filter ------- *)
\* C39: while the chart is shown for the selected feature, every data point
\* of the uid's evolution series is read from a feature of its step that
\* passes the threshold filter in force, and the data point of the step
\* shown is read from the selected feature itself.
SeriesFromVisibleFeatures ==
  ( /\ app.chart.display
    /\ app.selection.feature # NoRef
    /\ app.chart.uid = app.selection.uid )
  => \A i \in DOMAIN DataPointRecords(app.geojsonLayers, app.chart.uid, 1) :
        /\ passesThreshold(app,
             FeatureAt(app, DataPointRecords(app.geojsonLayers,
                                             app.chart.uid, 1)[i].feature))
        /\ DataPointRecords(app.geojsonLayers, app.chart.uid, 1)[i].feature.file
              = app.selection.feature.file
           => DataPointRecords(app.geojsonLayers, app.chart.uid, 1)[i].feature
                 = app.selection.feature
====
